---- MODULE Spec2Model ----
(***************************************************************************)
(* Xonix: the area-claiming simulation driven by GameLogic.updateGame.     *)
(*                                                                         *)
(* Lengths are integers (whole pixels).  The board is GridW x GridH cells  *)
(* of gridSize pixels; the canvas is an exact multiple of the cell size,   *)
(* as XonixGame.calculateCanvasSize guarantees.  A cell key `${x},${y}` is *)
(* the pair <<x, y>>.                                                      *)
(***************************************************************************)
EXTENDS Integers, Sequences, FiniteSets, TLC

(***************************************************************************)
(* Bounds of the model.                                                    *)
(***************************************************************************)
\* pixels per cell (GRID_SIZE of XonixGame, scaled down)
gridSize == 2
\* cells per row and per column
GridW == 5
GridH == 4
\* largest per-tick displacement of the player on one axis (playerSpeed, scaled)
PlayerStep == 1
\* largest per-tick displacement of an enemy on one axis (MAX_SPEED, scaled)
EnemyStep == 1
\* gameplay ticks are explored while the session score is below this
MaxScore == 3

(***************************************************************************)
(* Program constants.                                                      *)
(***************************************************************************)
STARTING_LIVES == 2
MAX_LIVES == 9
LIFE_SCORE_INTERVAL == 150000
LEVEL_UP_THRESHOLD == 80
TRANSITION_DURATION_FRAMES == 90

canvasWidth == GridW * gridSize
canvasHeight == GridH * gridSize
\* Math.floor(canvasWidth / gridSize), Math.floor(canvasHeight / gridSize)
gridWidth == canvasWidth \div gridSize
gridHeight == canvasHeight \div gridSize

Max(a, b) == IF a >= b THEN a ELSE b
Min(a, b) == IF a <= b THEN a ELSE b
Abs(a) == IF a >= 0 THEN a ELSE -a

\* Math.floor(p / gridSize)
CellOf(p) == p \div gridSize
\* the grid cell of a pixel position
CellAt(pos) == <<CellOf(pos.x), CellOf(pos.y)>>

AllCells == (0 .. gridWidth - 1) \X (0 .. gridHeight - 1)
IsBorderCell(c) ==
    \/ c[1] = 0
    \/ c[2] = 0
    \/ c[1] = gridWidth - 1
    \/ c[2] = gridHeight - 1
BorderCells == {c \in AllCells : IsBorderCell(c)}

VARIABLES
    \* GameState
    player, enemies, trail, filledCells, score, areaFilled, isAlive,
    level, enemyCount, isLevelTransition, surprises,
    lives, maxLives, lastLifeScore,
    \* GameLogic.transitionFrameCounter, TrailManager.lastPlayerPosition
    transitionFrameCounter, lastPlayerPosition,
    \* SurpriseManager.surpriseIdCounter, SurpriseManager.stuckEnemies
    surpriseIdCounter, stuckEnemies,
    \* the setTimeout callbacks of collectSurprise that have not run yet
    magneticTimers,
    \* what the latest step did (history, never read by the program)
    lastTick, lastClaim,
    \* one FloodFill.floodFill call in progress: its arguments and its locals
    fill,
    \* one spawnLevelSurprises call in progress: its loop counters
    spawn,
    \* EnemyPhysics as far as it decides an enemy's speed: the velocity of the
    \* enemy (enemies[0].vx, vy), its baseVelocities entry, and the velocity the
    \* last updateEnemies call left it with, in hundredths of a pixel per tick
    physics

gsVars == <<player, enemies, trail, filledCells, score, areaFilled, isAlive,
            level, enemyCount, isLevelTransition, surprises,
            lives, maxLives, lastLifeScore>>
logicVars == <<transitionFrameCounter, lastPlayerPosition, surpriseIdCounter, stuckEnemies>>
vars == <<gsVars, logicVars, magneticTimers, lastTick, lastClaim, fill, spawn, physics>>

\* the GameState object handed to updateGame
GS ==
    [player |-> player, enemies |-> enemies, trail |-> trail,
     filledCells |-> filledCells, score |-> score, areaFilled |-> areaFilled,
     isAlive |-> isAlive, level |-> level, enemyCount |-> enemyCount,
     isLevelTransition |-> isLevelTransition, surprises |-> surprises,
     lives |-> lives, maxLives |-> maxLives, lastLifeScore |-> lastLifeScore]

\* a floodFill iteration that never pushes the neighbour above (x, y - 1);
\* FloodFillReturnsRegion rules it out
FloodStepNoUp(st, gw, gh, filled, trailSet) ==
    LET n == Len(st.stack)
        top == st.stack[n]
        rest == SubSeq(st.stack, 1, n - 1)
        x == top[1]
        y == top[2]
    IN  IF x < 0 \/ x >= gw \/ y < 0 \/ y >= gh THEN [st EXCEPT !.stack = rest]
        ELSE IF top \in st.visited THEN [st EXCEPT !.stack = rest]
        ELSE IF top \in filled \/ top \in trailSet THEN [st EXCEPT !.stack = rest]
        ELSE [stack |-> rest \o << <<x + 1, y>>, <<x - 1, y>>, <<x, y + 1>> >>,
              visited |-> st.visited \cup {top},
              area |-> st.area \cup {top}]

(***************************************************************************)
(* FloodFill.floodFill: one iteration of the while loop, on the record     *)
(* [stack, visited, area]; pop takes the last element.                     *)
(***************************************************************************)
FloodStep(st, gw, gh, filled, trailSet) ==
    LET n == Len(st.stack)
        top == st.stack[n]
        rest == SubSeq(st.stack, 1, n - 1)
        x == top[1]
        y == top[2]
    IN  IF x < 0 \/ x >= gw \/ y < 0 \/ y >= gh THEN [st EXCEPT !.stack = rest]
        ELSE IF top \in st.visited THEN [st EXCEPT !.stack = rest]
        ELSE IF top \in filled \/ top \in trailSet THEN [st EXCEPT !.stack = rest]
        ELSE [stack |-> rest \o << <<x + 1, y>>, <<x - 1, y>>, <<x, y + 1>>, <<x, y - 1>> >>,
              visited |-> st.visited \cup {top},
              area |-> st.area \cup {top}]

RECURSIVE FloodLoop(_, _, _, _, _)
FloodLoop(st, gw, gh, filled, trailSet) ==
    IF st.stack = <<>> THEN st
    ELSE FloodLoop(FloodStep(st, gw, gh, filled, trailSet), gw, gh, filled, trailSet)

\* the call: returns the area and the (mutated) shared visited set
FloodFill(startX, startY, gw, gh, filled, trailSet, visited) ==
    LET r == FloodLoop([stack |-> << <<startX, startY>> >>, visited |-> visited, area |-> {}],
                       gw, gh, filled, trailSet)
    IN  [area |-> r.area, visited |-> r.visited]


(***************************************************************************)
(* TrailManager                                                            *)
(***************************************************************************)
\* initializeBorder: the two loops over the top/bottom rows and the left/right columns
InitializeBorder(gs) ==
    [gs EXCEPT !.filledCells =
        gs.filledCells
          \cup {<<x, 0>> : x \in 0 .. gridWidth - 1}
          \cup {<<x, gridHeight - 1>> : x \in 0 .. gridWidth - 1}
          \cup {<<0, y>> : y \in 0 .. gridHeight - 1}
          \cup {<<gridWidth - 1, y>> : y \in 0 .. gridHeight - 1}]

\* the cells of the trail positions (Math.floor(pos / gridSize) of each entry)
TrailCells(tr) == {CellAt(tr[i]) : i \in 1 .. Len(tr)}

\* the cells of the enemies' positions
EnemyCells(es) == {CellAt(es[i]) : i \in 1 .. Len(es)}

\* the k-th cell of the scan "for y = 1 .. gridHeight-2, for x = 1 .. gridWidth-2"
ScanCell(k) == <<1 + ((k - 1) % (gridWidth - 2)), 1 + ((k - 1) \div (gridWidth - 2))>>
ScanCount == IF gridWidth > 2 /\ gridHeight > 2 THEN (gridWidth - 2) * (gridHeight - 2) ELSE 0

\* a scan that starts every flood fill with an empty visited set instead of the
\* shared one; RegionsPartitionOpenCells rules it out
RECURSIVE ScanGridFresh(_, _, _, _)
ScanGridFresh(k, boundarySet, visited, areas) ==
    IF k > ScanCount THEN areas
    ELSE LET c == ScanCell(k)
         IN  IF c \in boundarySet
             THEN ScanGridFresh(k + 1, boundarySet, visited, areas)
             ELSE LET f == FloodFill(c[1], c[2], gridWidth, gridHeight, boundarySet, {}, {})
                  IN  ScanGridFresh(k + 1, boundarySet, visited,
                                    IF f.area # {} THEN Append(areas, f.area) ELSE areas)

\* the scan of completeArea: one flood fill per unvisited, non-boundary interior cell
RECURSIVE ScanGrid(_, _, _, _)
ScanGrid(k, boundarySet, visited, areas) ==
    IF k > ScanCount THEN areas
    ELSE LET c == ScanCell(k)
         IN  IF c \in visited \/ c \in boundarySet
             THEN ScanGrid(k + 1, boundarySet, visited, areas)
             ELSE LET f == FloodFill(c[1], c[2], gridWidth, gridHeight, boundarySet, {}, visited)
                  IN  ScanGrid(k + 1, boundarySet, f.visited,
                               IF f.area # {} THEN Append(areas, f.area) ELSE areas)

\* a forEach that fills no area; EnemyFreeRegionsClaimed rules it out
FillAreasNone(areas, i, es, filled, total) == [filled |-> filled, total |-> total]

\* a forEach that fills every area, enemy or not; EnemyRegionsStayOpen rules it out
FillAreasAll(areas, i, es, filled, total) ==
    LET all == UNION {areas[k] : k \in 1 .. Len(areas)}
    IN  [filled |-> filled \cup all, total |-> total + Cardinality(all \ filled)]

\* areas.forEach: fill each area that holds no enemy; counts the cells newly added
RECURSIVE FillAreas(_, _, _, _, _)
FillAreas(areas, i, es, filled, total) ==
    IF i > Len(areas) THEN [filled |-> filled, total |-> total]
    ELSE LET hasEnemy == \E e \in 1 .. Len(es) : CellAt(es[e]) \in areas[i]
         IN  IF hasEnemy THEN FillAreas(areas, i + 1, es, filled, total)
             ELSE FillAreas(areas, i + 1, es, filled \cup areas[i],
                            total + Cardinality(areas[i] \ filled))

\* the largest r with r * r <= m
ISqrt(m) == CHOOSE r \in 0 .. m : r * r <= m /\ (r + 1) * (r + 1) > m

\* Math.floor(10 * n + Math.pow(n, 1.5) * 5 + (n >= 50 ? n * 20 : 0))
AreaScore(n) == 10 * n + ISqrt(25 * n * n * n) + (IF n >= 50 THEN n * 20 ELSE 0)

\* the points of a resolution that scores each filled area on its own
RECURSIVE GainPerRegion(_, _, _)
GainPerRegion(areas, i, es) ==
    IF i > Len(areas) THEN 0
    ELSE (IF (\E e \in 1 .. Len(es) : CellAt(es[e]) \in areas[i]) \/ areas[i] = {}
          THEN 0 ELSE AreaScore(Cardinality(areas[i])))
           + GainPerRegion(areas, i + 1, es)

\* a resolution that scores area by area; ClaimScoredOnTotal rules it out
ResolveAreasPerRegion(areas, es, boundarySet) ==
    [filled |-> FillAreas(areas, 1, es, boundarySet, 0).filled,
     total |-> FillAreas(areas, 1, es, boundarySet, 0).total,
     gain |-> GainPerRegion(areas, 1, es)]

\* the second half of completeArea: the areas are filled, and the cells newly
\* filled are scored if there are any
ResolveAreas(areas, es, boundarySet) ==
    LET done == FillAreas(areas, 1, es, boundarySet, 0)
    IN  [filled |-> done.filled, total |-> done.total,
         gain |-> IF done.total > 0 THEN AreaScore(done.total) ELSE 0]

\* areaFilled is kept as (percentage x number of cells), an integer:
\* (filledCells.size / totalCells) * 100 >= p  iff  100 * size >= p * totalCells
TotalCells == gridWidth * gridHeight
AreaPercent(filled) == 100 * Cardinality(filled)

NoClaim == [ran |-> FALSE, boundary |-> {}, enemyCells |-> {}, areas |-> <<>>,
            filled |-> {}, newly |-> 0, gained |-> 0]

\* a completeArea that builds filledCells from the trail and the new areas alone,
\* forgetting the cells claimed before; ClaimedSetOnlyGrows rules it out
CompleteAreaFresh(gs) ==
    LET trailSet == TrailCells(gs.trail) \cup {CellAt(gs.player)}
        boundarySet == gs.filledCells \cup trailSet
        areas == ScanGrid(1, boundarySet, {}, <<>>)
        done == ResolveAreas(areas, gs.enemies, boundarySet)
        gain == done.gain
        fresh == done.filled \ gs.filledCells
    IN  [gs |-> [gs EXCEPT !.filledCells = fresh,
                           !.score = gs.score + gain,
                           !.areaFilled = AreaPercent(fresh)],
         claim |-> [ran |-> TRUE, boundary |-> boundarySet,
                    enemyCells |-> EnemyCells(gs.enemies), areas |-> areas,
                    filled |-> fresh, newly |-> done.total, gained |-> gain]]

\* completeArea; returns the game state and a record of what the resolution did
CompleteArea(gs) ==
    LET trailSet == TrailCells(gs.trail) \cup {CellAt(gs.player)}
        boundarySet == gs.filledCells \cup trailSet
        areas == ScanGrid(1, boundarySet, {}, <<>>)
        done == ResolveAreas(areas, gs.enemies, boundarySet)
        gain == done.gain
    IN  [gs |-> [gs EXCEPT !.filledCells = done.filled,
                           !.score = gs.score + gain,
                           !.areaFilled = AreaPercent(done.filled)],
         claim |-> [ran |-> TRUE, boundary |-> boundarySet,
                    enemyCells |-> EnemyCells(gs.enemies), areas |-> areas,
                    filled |-> done.filled, newly |-> done.total, gained |-> gain]]

\* an updateTrail that keeps the trail after resolving the claim;
\* TrailEmptyOnClaimed rules it out
UpdateTrailKeep(gs, lastPos) ==
    LET cur == CellAt(gs.player)
        isOnBorder == \/ cur[1] = 0
                      \/ cur[2] = 0
                      \/ cur[1] = gridWidth - 1
                      \/ cur[2] = gridHeight - 1
        isOnFilled == cur \in gs.filledCells
    IN  IF lastPos # <<>> /\ lastPos = cur
        THEN [gs |-> gs, lastPos |-> lastPos, claim |-> NoClaim]
        ELSE IF isOnBorder \/ isOnFilled
        THEN IF Len(gs.trail) > 0
             THEN LET r == CompleteArea(gs)
                  IN  [gs |-> r.gs, lastPos |-> cur, claim |-> r.claim]
             ELSE [gs |-> gs, lastPos |-> cur, claim |-> NoClaim]
        ELSE [gs |-> [gs EXCEPT
                        !.score = gs.score + 1,
                        !.trail = IF cur \in TrailCells(gs.trail) THEN gs.trail
                                  ELSE Append(gs.trail, [x |-> cur[1] * gridSize,
                                                         y |-> cur[2] * gridSize])],
              lastPos |-> cur, claim |-> NoClaim]

\* an updateTrail that skips the push only when the cell is the last trail entry;
\* TrailAppendsUnlessPresent rules it out
UpdateTrailLastOnly(gs, lastPos) ==
    LET cur == CellAt(gs.player)
        isOnBorder == \/ cur[1] = 0
                      \/ cur[2] = 0
                      \/ cur[1] = gridWidth - 1
                      \/ cur[2] = gridHeight - 1
        isOnFilled == cur \in gs.filledCells
    IN  IF lastPos # <<>> /\ lastPos = cur
        THEN [gs |-> gs, lastPos |-> lastPos, claim |-> NoClaim]
        ELSE IF isOnBorder \/ isOnFilled
        THEN IF Len(gs.trail) > 0
             THEN LET r == CompleteArea(gs)
                  IN  [gs |-> [r.gs EXCEPT !.trail = <<>>], lastPos |-> cur, claim |-> r.claim]
             ELSE [gs |-> [gs EXCEPT !.trail = <<>>], lastPos |-> cur, claim |-> NoClaim]
        ELSE [gs |-> [gs EXCEPT
                        !.score = gs.score + 1,
                        !.trail = IF /\ gs.trail # <<>>
                                     /\ CellAt(gs.trail[Len(gs.trail)]) = cur
                                  THEN gs.trail
                                  ELSE Append(gs.trail, [x |-> cur[1] * gridSize,
                                                         y |-> cur[2] * gridSize])],
              lastPos |-> cur, claim |-> NoClaim]

\* an updateTrail without the no-movement guard; SameCellKeepsScoreAndTrail
\* rules it out
UpdateTrailNoGuard(gs, lastPos) ==
    LET cur == CellAt(gs.player)
        isOnBorder == \/ cur[1] = 0
                      \/ cur[2] = 0
                      \/ cur[1] = gridWidth - 1
                      \/ cur[2] = gridHeight - 1
        isOnFilled == cur \in gs.filledCells
    IN  IF isOnBorder \/ isOnFilled
        THEN IF Len(gs.trail) > 0
             THEN LET r == CompleteArea(gs)
                  IN  [gs |-> [r.gs EXCEPT !.trail = <<>>], lastPos |-> cur, claim |-> r.claim]
             ELSE [gs |-> [gs EXCEPT !.trail = <<>>], lastPos |-> cur, claim |-> NoClaim]
        ELSE [gs |-> [gs EXCEPT
                        !.score = gs.score + 1,
                        !.trail = IF cur \in TrailCells(gs.trail) THEN gs.trail
                                  ELSE Append(gs.trail, [x |-> cur[1] * gridSize,
                                                         y |-> cur[2] * gridSize])],
              lastPos |-> cur, claim |-> NoClaim]

\* an updateTrail that starts the trail at the claimed cell the player walks
\* on; TrailOnOpenCells rules it out
UpdateTrailFromClaimed(gs, lastPos) ==
    LET cur == CellAt(gs.player)
        isOnBorder == \/ cur[1] = 0
                      \/ cur[2] = 0
                      \/ cur[1] = gridWidth - 1
                      \/ cur[2] = gridHeight - 1
        isOnFilled == cur \in gs.filledCells
    IN  IF lastPos # <<>> /\ lastPos = cur
        THEN [gs |-> gs, lastPos |-> lastPos, claim |-> NoClaim]
        ELSE IF isOnBorder \/ isOnFilled
        THEN IF Len(gs.trail) > 0
             THEN LET r == CompleteArea(gs)
                  IN  [gs |-> [r.gs EXCEPT !.trail = <<>>], lastPos |-> cur, claim |-> r.claim]
             ELSE [gs |-> [gs EXCEPT !.trail = << [x |-> cur[1] * gridSize,
                                                   y |-> cur[2] * gridSize] >>],
                   lastPos |-> cur, claim |-> NoClaim]
        ELSE [gs |-> [gs EXCEPT
                        !.score = gs.score + 1,
                        !.trail = IF cur \in TrailCells(gs.trail) THEN gs.trail
                                  ELSE Append(gs.trail, [x |-> cur[1] * gridSize,
                                                         y |-> cur[2] * gridSize])],
              lastPos |-> cur, claim |-> NoClaim]

\* lastPlayerPosition is <<>> for null, else the cell <<x, y>>
\* updateTrail; returns the game state, the new lastPlayerPosition and the claim record
UpdateTrail(gs, lastPos) ==
    LET cur == CellAt(gs.player)
        isOnBorder == \/ cur[1] = 0
                      \/ cur[2] = 0
                      \/ cur[1] = gridWidth - 1
                      \/ cur[2] = gridHeight - 1
        isOnFilled == cur \in gs.filledCells
    IN  IF lastPos # <<>> /\ lastPos = cur
        THEN [gs |-> gs, lastPos |-> lastPos, claim |-> NoClaim]
        ELSE IF isOnBorder \/ isOnFilled
        THEN IF Len(gs.trail) > 0
             THEN LET r == CompleteArea(gs)
                  IN  [gs |-> [r.gs EXCEPT !.trail = <<>>], lastPos |-> cur, claim |-> r.claim]
             ELSE [gs |-> [gs EXCEPT !.trail = <<>>], lastPos |-> cur, claim |-> NoClaim]
        ELSE [gs |-> [gs EXCEPT
                        !.score = gs.score + 1,
                        !.trail = IF cur \in TrailCells(gs.trail) THEN gs.trail
                                  ELSE Append(gs.trail, [x |-> cur[1] * gridSize,
                                                         y |-> cur[2] * gridSize])],
              lastPos |-> cur, claim |-> NoClaim]


(***************************************************************************)
(* PlayerPhysics.  Speeds are whole pixels per tick.  The acceleration     *)
(* increment is one PlayerStep and friction stops a free axis within the   *)
(* tick, so the velocity the update leaves in the player record is decided *)
(* by the keys of the tick.                                                *)
(***************************************************************************)
Keys == {"arrowleft", "arrowright", "arrowup", "arrowdown"}
\* the key sets a tick may see: no key or one arrow key held
KeySets == {k \in SUBSET Keys : Cardinality(k) <= 1}

\* one axis of updatePlayerMovement: neg/pos are the keys of the two directions
AxisVelocity(neg, pos) ==
    IF neg THEN -PlayerStep ELSE IF pos THEN PlayerStep ELSE 0

\* a player movement that is not kept in bounds; EntitiesOnCanvas rules it out
UpdatePlayerMovementFree(gs, keys) ==
    LET vx == AxisVelocity("arrowleft" \in keys, "arrowright" \in keys)
        vy == AxisVelocity("arrowup" \in keys, "arrowdown" \in keys)
    IN  [gs EXCEPT !.player =
            [x |-> gs.player.x + vx, y |-> gs.player.y + vy, vx |-> vx, vy |-> vy]]

UpdatePlayerMovement(gs, keys) ==
    LET vx == AxisVelocity("arrowleft" \in keys, "arrowright" \in keys)
        vy == AxisVelocity("arrowup" \in keys, "arrowdown" \in keys)
    IN  [gs EXCEPT !.player =
            [x |-> Max(0, Min(canvasWidth - gridSize, gs.player.x + vx)),
             y |-> Max(0, Min(canvasHeight - gridSize, gs.player.y + vy)),
             vx |-> vx, vy |-> vy]]

(***************************************************************************)
(* EnemyPhysics.  An enemy's velocity is steered by Math.random() and      *)
(* Date.now(); the velocity it ends the steering with is an input of the   *)
(* tick, any whole vector of magnitude at most EnemyStep.                  *)
(***************************************************************************)
Velocities == {v \in [vx : -EnemyStep .. EnemyStep, vy : -EnemyStep .. EnemyStep] :
                  v.vx * v.vx + v.vy * v.vy <= EnemyStep * EnemyStep}

\* the cell of a point given in tenths of a pixel, <<>> when it is off the grid
PointCell(x10, y10) ==
    LET gx == x10 \div (10 * gridSize)
        gy == y10 \div (10 * gridSize)
    IN  IF gx < 0 \/ gx >= gridWidth \/ gy < 0 \/ gy >= gridHeight THEN <<>> ELSE <<gx, gy>>

\* checkFilledAreaCollision: the next position and four points at the enemy radius (0.4 cell)
WillCollide(e, v, filled) ==
    LET nx == 10 * (e.x + v.vx)
        ny == 10 * (e.y + v.vy)
        r == 4 * gridSize
        points == {<<nx, ny>>, <<nx - r, ny>>, <<nx + r, ny>>, <<nx, ny - r>>, <<nx, ny + r>>}
    IN  \E p \in points : PointCell(p[1], p[2]) # <<>> /\ PointCell(p[1], p[2]) \in filled

\* handleWallCollisions: clamp to the canvas
ClampToWalls(e) ==
    [x |-> IF e.x <= 0 THEN 0
           ELSE IF e.x >= canvasWidth - gridSize THEN canvasWidth - gridSize ELSE e.x,
     y |-> IF e.y <= 0 THEN 0
           ELSE IF e.y >= canvasHeight - gridSize THEN canvasHeight - gridSize ELSE e.y]

\* the free cells on the square ring of the given radius around cell c
RingFree(c, radius, filled) ==
    {d \in (-radius .. radius) \X (-radius .. radius) :
        /\ Abs(d[1]) = radius \/ Abs(d[2]) = radius
        /\ c[1] + d[1] >= 0 /\ c[1] + d[1] < gridWidth
        /\ c[2] + d[2] >= 0 /\ c[2] + d[2] < gridHeight
        /\ <<c[1] + d[1], c[2] + d[2]>> \notin filled}

\* the first offset of least |dx| + |dy| in the loop order (dx outer, dy inner)
BestOffset(cands) ==
    CHOOSE d \in cands : \A o \in cands :
        \/ Abs(d[1]) + Abs(d[2]) < Abs(o[1]) + Abs(o[2])
        \/ /\ Abs(d[1]) + Abs(d[2]) = Abs(o[1]) + Abs(o[2])
           /\ (d[1] < o[1] \/ (d[1] = o[1] /\ d[2] <= o[2]))

\* separateFromFilledAreas: an enemy on a filled cell jumps to the centre of the
\* nearest free cell within three rings, and stays if there is none
SeparateFromFilledAreas(e, filled) ==
    LET c == CellAt(e)
        radius == IF RingFree(c, 1, filled) # {} THEN 1
                  ELSE IF RingFree(c, 2, filled) # {} THEN 2
                  ELSE IF RingFree(c, 3, filled) # {} THEN 3 ELSE 0
    IN  IF c[1] >= 0 /\ c[1] < gridWidth /\ c[2] >= 0 /\ c[2] < gridHeight
           /\ c \in filled /\ radius > 0
        THEN LET d == BestOffset(RingFree(c, radius, filled))
             IN  [x |-> (c[1] + d[1]) * gridSize + (gridSize \div 2),
                  y |-> (c[2] + d[2]) * gridSize + (gridSize \div 2)]
        ELSE e

\* the body of updateEnemies' forEach for one enemy with steering result v
MoveEnemy(e, v, filled) ==
    LET moved == IF WillCollide(e, v, filled) THEN e
                 ELSE [x |-> e.x + v.vx, y |-> e.y + v.vy]
    IN  SeparateFromFilledAreas(ClampToWalls(moved), filled)

UpdateEnemies(gs, vs) ==
    [gs EXCEPT !.enemies = [i \in 1 .. Len(gs.enemies) |->
                               MoveEnemy(gs.enemies[i], vs[i], gs.filledCells)]]

(***************************************************************************)
(* CollisionDetector                                                       *)
(***************************************************************************)
\* the player stands on a filled cell
PlayerInFilledArea(gs) == CellAt(gs.player) \in gs.filledCells

\* Math.sqrt(dx*dx + dy*dy) < gridSize * 0.6
EnemyNearPlayer(e, pl) ==
    25 * ((e.x - pl.x) * (e.x - pl.x) + (e.y - pl.y) * (e.y - pl.y)) < 9 * gridSize * gridSize

\* distance of (enemy + gridSize/2) to the trail entry < gridSize * 0.7, in doubled lengths
EnemyNearTrail(e, pos) ==
    LET dx2 == 2 * (e.x - pos.x) + gridSize
        dy2 == 2 * (e.y - pos.y) + gridSize
    IN  100 * (dx2 * dx2 + dy2 * dy2) < 196 * gridSize * gridSize

\* a collision check without the safe-zone return; ContactKillsOnlyOffClaimed
\* rules it out
CheckCollisionsAnywhere(gs) ==
    IF \/ \E i \in 1 .. Len(gs.enemies) : EnemyNearPlayer(gs.enemies[i], gs.player)
       \/ \E i \in 1 .. Len(gs.enemies), t \in 1 .. Len(gs.trail) :
              EnemyNearTrail(gs.enemies[i], gs.trail[t])
    THEN [gs EXCEPT !.isAlive = FALSE]
    ELSE gs

\* a collision check that tests the player only and never the trail;
\* TrailHitKillsOffClaimed rules it out
CheckCollisionsPlayerOnly(gs) ==
    IF PlayerInFilledArea(gs) THEN gs
    ELSE IF \E i \in 1 .. Len(gs.enemies) : EnemyNearPlayer(gs.enemies[i], gs.player)
    THEN [gs EXCEPT !.isAlive = FALSE]
    ELSE gs

CheckCollisions(gs) ==
    IF PlayerInFilledArea(gs) THEN gs
    ELSE IF \/ \E i \in 1 .. Len(gs.enemies) : EnemyNearPlayer(gs.enemies[i], gs.player)
            \/ \E i \in 1 .. Len(gs.enemies), t \in 1 .. Len(gs.trail) :
                   EnemyNearTrail(gs.enemies[i], gs.trail[t])
    THEN [gs EXCEPT !.isAlive = FALSE]
    ELSE gs

(***************************************************************************)
(* LivesManager                                                            *)
(***************************************************************************)
InitializeLives(gs) ==
    [gs EXCEPT !.lives = STARTING_LIVES, !.maxLives = MAX_LIVES, !.lastLifeScore = 0]

CheckForExtraLife(gs) ==
    IF /\ gs.score \div LIFE_SCORE_INTERVAL > gs.lastLifeScore \div LIFE_SCORE_INTERVAL
       /\ gs.lives < gs.maxLives
    THEN [gs EXCEPT !.lives = gs.lives + 1, !.lastLifeScore = gs.score]
    ELSE gs

\* a handlePlayerDeath that takes the life and leaves the player dead;
\* LivesDecideGameOver rules it out
HandlePlayerDeathNoRevive(gs) ==
    IF gs.lives > 1
    THEN [gs |-> [gs EXCEPT !.lives = gs.lives - 1,
                            !.player = [x |-> 0, y |-> 0, vx |-> 0, vy |-> 0],
                            !.trail = <<>>],
          continueGame |-> TRUE]
    ELSE [gs |-> [gs EXCEPT !.lives = 0, !.isAlive = FALSE], continueGame |-> FALSE]

\* a handlePlayerDeath whose revival moves the player to the origin and leaves
\* its velocity as it was; DeathTakesOneLife rules it out
HandlePlayerDeathKeepVelocity(gs) ==
    IF gs.lives > 1
    THEN [gs |-> [gs EXCEPT !.lives = gs.lives - 1, !.isAlive = TRUE,
                            !.player = [gs.player EXCEPT !.x = 0, !.y = 0],
                            !.trail = <<>>],
          continueGame |-> TRUE]
    ELSE [gs |-> [gs EXCEPT !.lives = 0, !.isAlive = FALSE], continueGame |-> FALSE]

\* a handlePlayerDeath whose revival also starts the score again;
\* ScoreNeverDecreases rules it out
HandlePlayerDeathLoseScore(gs) ==
    IF gs.lives > 1
    THEN [gs |-> [gs EXCEPT !.lives = gs.lives - 1, !.isAlive = TRUE,
                            !.player = [x |-> 0, y |-> 0, vx |-> 0, vy |-> 0],
                            !.trail = <<>>, !.score = 0],
          continueGame |-> TRUE]
    ELSE [gs |-> [gs EXCEPT !.lives = 0, !.isAlive = FALSE], continueGame |-> FALSE]

\* a handlePlayerDeath whose revival leaves the trail in place, so that the
\* updateTrail of the same tick closes it from the origin; NoTerritoryOnDeath
\* rules it out
HandlePlayerDeathKeepTrail(gs) ==
    IF gs.lives > 1
    THEN [gs |-> [gs EXCEPT !.lives = gs.lives - 1, !.isAlive = TRUE,
                            !.player = [x |-> 0, y |-> 0, vx |-> 0, vy |-> 0]],
          continueGame |-> TRUE]
    ELSE [gs |-> [gs EXCEPT !.lives = 0, !.isAlive = FALSE], continueGame |-> FALSE]

\* a handlePlayerDeath whose revival leaves the player where it was killed;
\* OneLifePerTick rules it out
HandlePlayerDeathInPlace(gs) ==
    IF gs.lives > 1
    THEN [gs |-> [gs EXCEPT !.lives = gs.lives - 1, !.isAlive = TRUE,
                            !.player = [gs.player EXCEPT !.vx = 0, !.vy = 0],
                            !.trail = <<>>],
          continueGame |-> TRUE]
    ELSE [gs |-> [gs EXCEPT !.lives = 0, !.isAlive = FALSE], continueGame |-> FALSE]

\* handlePlayerDeath: the state and the returned flag (TRUE: the game continues)
HandlePlayerDeath(gs) ==
    IF gs.lives > 1
    THEN [gs |-> [gs EXCEPT !.lives = gs.lives - 1, !.isAlive = TRUE,
                            !.player = [x |-> 0, y |-> 0, vx |-> 0, vy |-> 0],
                            !.trail = <<>>],
          continueGame |-> TRUE]
    ELSE [gs |-> [gs EXCEPT !.lives = 0, !.isAlive = FALSE], continueGame |-> FALSE]


(***************************************************************************)
(* LevelManager                                                            *)
(***************************************************************************)
\* a completion test that asks for more than the threshold; LevelAdvanceRule
\* rules it out
CheckLevelCompletionAbove(gs) == gs.areaFilled > LEVEL_UP_THRESHOLD * TotalCells

\* gameState.areaFilled >= LEVEL_UP_THRESHOLD
CheckLevelCompletion(gs) == gs.areaFilled >= LEVEL_UP_THRESHOLD * TotalCells

\* the signs of Math.cos and Math.sin of the angle (i / n) * 2 * PI
CosSign(i, n) == IF 4 * i < n \/ 4 * i > 3 * n THEN 1
                 ELSE IF 4 * i = n \/ 4 * i = 3 * n THEN 0 ELSE -1
SinSign(i, n) == IF i = 0 \/ 2 * i = n THEN 0 ELSE IF 2 * i < n THEN 1 ELSE -1

\* createEnemiesForLevel: enemy i lies at radius 150 + 50 i around the centre, clamped
\* two cells inside the canvas.  The radius exceeds any canvas of the model, so only
\* the sign of the cosine and sine decides where the clamp puts the enemy.
CreateEnemiesForLevel(gs) ==
    LET centerX == canvasWidth \div 2
        centerY == canvasHeight \div 2
        n == gs.enemyCount
        radius(i) == 150 + (i * 50)
    IN  [gs EXCEPT !.enemies = [k \in 1 .. n |->
            [x |-> Max(gridSize * 2, Min(canvasWidth - gridSize * 2,
                                         centerX + CosSign(k - 1, n) * radius(k - 1))),
             y |-> Max(gridSize * 2, Min(canvasHeight - gridSize * 2,
                                         centerY + SinSign(k - 1, n) * radius(k - 1)))]]]

\* a level reset that clears filledCells and does not put the border back;
\* BorderAlwaysClaimed rules it out
ResetLevelAreaBare(gs) ==
    [gs EXCEPT !.filledCells = {},
               !.trail = <<>>,
               !.areaFilled = 0,
               !.player = [x |-> 0, y |-> 0, vx |-> 0, vy |-> 0]]

\* a level reset that leaves the player where the level ended;
\* TransitionEndsOnResetBoard rules it out
ResetLevelAreaKeepPlayer(gs) ==
    [gs EXCEPT !.filledCells = BorderCells,
               !.trail = <<>>,
               !.areaFilled = AreaPercent(BorderCells)]

ResetLevelArea(gs) ==
    LET border == {<<x, 0>> : x \in 0 .. gridWidth - 1}
                    \cup {<<x, gridHeight - 1>> : x \in 0 .. gridWidth - 1}
                    \cup {<<0, y>> : y \in 0 .. gridHeight - 1}
                    \cup {<<gridWidth - 1, y>> : y \in 0 .. gridHeight - 1}
    IN  [gs EXCEPT !.filledCells = border,
                   !.trail = <<>>,
                   !.areaFilled = AreaPercent(border),
                   !.player = [x |-> 0, y |-> 0, vx |-> 0, vy |-> 0]]

\* an advanceLevel that sets enemyCount from the level before the increment;
\* EnemiesMatchLevel rules it out
AdvanceLevelLate(gs) ==
    LET levelBonus == gs.level * 1000
        speedBonus == IF gs.areaFilled > 85 * TotalCells THEN 500 ELSE 0
        g1 == [gs EXCEPT !.score = gs.score + levelBonus + speedBonus,
                         !.level = gs.level + 1,
                         !.enemyCount = gs.level,
                         !.isLevelTransition = TRUE]
    IN  CreateEnemiesForLevel(ResetLevelArea(g1))

AdvanceLevel(gs) ==
    LET levelBonus == gs.level * 1000
        speedBonus == IF gs.areaFilled > 85 * TotalCells THEN 500 ELSE 0
        g1 == [gs EXCEPT !.score = gs.score + levelBonus + speedBonus,
                         !.level = gs.level + 1,
                         !.enemyCount = gs.level + 1,
                         !.isLevelTransition = TRUE]
    IN  CreateEnemiesForLevel(ResetLevelArea(g1))

\* a completeLevelTransition that also empties the surprise list;
\* PauseSuspendsGameplay rules it out
CompleteLevelTransitionFresh(gs) ==
    [gs EXCEPT !.isLevelTransition = FALSE, !.surprises = <<>>]

CompleteLevelTransition(gs) == [gs EXCEPT !.isLevelTransition = FALSE]

(***************************************************************************)
(* SurpriseManager                                                         *)
(***************************************************************************)
\* the points collectSurprise and stickEnemyToBomb add to the score
CollectBonus == 50
StickBonus == 100

\* the values of Math.floor(Math.random() * m) for Math.random() in [0, 1)
RandomFloor(m) == IF m > 0 THEN 0 .. m - 1 ELSE m .. 0

\* the cells findSafeSpawnPosition may draw on a grid of gw x gh cells
SpawnCellsOn(gw, gh) == {<<3 + fx, 3 + fy>> : fx \in RandomFloor(gw - 6),
                                              fy \in RandomFloor(gh - 6)}

SpawnCells == SpawnCellsOn(gridWidth, gridHeight)

\* |a.x - x| < d and |a.y - y| < d
Near(a, x, y, d) == Abs(a.x - x) < d /\ Abs(a.y - y) < d

\* a test that leaves out isNearOtherSurprises
SafeSpawnCellAlone(c, gs) ==
    LET x == c[1] * gridSize
        y == c[2] * gridSize
    IN  /\ c \notin gs.filledCells
        /\ ~\E t \in 1 .. Len(gs.trail) : Near(gs.trail[t], x, y, gridSize * 2)
        /\ ~Near(gs.player, x, y, gridSize * 3)
        /\ ~\E e \in 1 .. Len(gs.enemies) : Near(gs.enemies[e], x, y, gridSize * 3)

\* the test of findSafeSpawnPosition for one drawn cell
SafeSpawnCell(c, gs) ==
    LET x == c[1] * gridSize
        y == c[2] * gridSize
    IN  /\ c \notin gs.filledCells
        /\ ~\E t \in 1 .. Len(gs.trail) : Near(gs.trail[t], x, y, gridSize * 2)
        /\ ~Near(gs.player, x, y, gridSize * 3)
        /\ ~\E e \in 1 .. Len(gs.enemies) : Near(gs.enemies[e], x, y, gridSize * 3)
        /\ ~\E b \in 1 .. Len(gs.surprises) : Near(gs.surprises[b], x, y, gridSize * 4)

\* what findSafeSpawnPosition may return: a safe drawn cell, or <<>> (null) when
\* the attempts can all miss
SpawnPositions(gs) ==
    {c \in SpawnCells : SafeSpawnCell(c, gs)}
        \cup (IF \A c \in SpawnCells : SafeSpawnCell(c, gs) THEN {} ELSE {<<>>})

\* spawnLevelSurprises, given the cell (or <<>>) each findSafeSpawnPosition call returns
RECURSIVE SpawnLoop(_, _, _, _)
SpawnLoop(gs, counter, i, cells) ==
    IF i > Len(cells) THEN [gs |-> gs, counter |-> counter]
    ELSE IF cells[i] = <<>> THEN SpawnLoop(gs, counter, i + 1, cells)
    ELSE SpawnLoop([gs EXCEPT !.surprises = Append(gs.surprises,
                        [id |-> counter, type |-> "timeBomb", state |-> "inactive",
                         timer |-> 0, maxTimer |-> 600,
                         x |-> cells[i][1] * gridSize, y |-> cells[i][2] * gridSize])],
                   counter + 1, i + 1, cells)

BombCount(gs) == Min(1 + (gs.level \div 3), 3)

\* the sequences of cells the calls of one spawnLevelSurprises may return
RECURSIVE SpawnDraws(_, _)
SpawnDraws(gs, k) ==
    IF k = 0 THEN {<<>>}
    ELSE UNION {{<<c>> \o rest :
                    rest \in SpawnDraws(
                        IF c = <<>> THEN gs
                        ELSE [gs EXCEPT !.surprises = Append(gs.surprises,
                                 [x |-> c[1] * gridSize, y |-> c[2] * gridSize])],
                        k - 1)} :
                c \in SpawnPositions(gs)}

\* updateTimeBomb on every surprise: [surprises, expired ids]
TickBombs(bombs) ==
    [i \in 1 .. Len(bombs) |->
        IF bombs[i].state \in {"activated", "magnetic"}
        THEN IF bombs[i].timer + 1 >= bombs[i].maxTimer
             THEN [bombs[i] EXCEPT !.timer = bombs[i].timer + 1, !.state = "exploded"]
             ELSE [bombs[i] EXCEPT !.timer = bombs[i].timer + 1]
        ELSE bombs[i]]

\* the ids of the surprises whose timer reaches maxTimer in this updateSurprises
ExpiredIds(bombs) ==
    {TickBombs(bombs)[i].id :
        i \in {j \in 1 .. Len(bombs) : TickBombs(bombs)[j].state = "exploded"}}

\* an updateSurprises whose updateTimeBomb does not call releaseBombEnemies
UpdateSurprisesNoRelease(gs, stuck) ==
    LET KeepBomb(b) == b.state # "exploded"
        aged == [i \in 1 .. Len(stuck) |->
                    [stuck[i] EXCEPT !.stuckTime = stuck[i].stuckTime + 1]]
        Held(se) == se.stuckTime < se.maxStuckTime
    IN  [gs |-> [gs EXCEPT !.surprises = SelectSeq(TickBombs(gs.surprises), KeepBomb)],
         stuck |-> SelectSeq(aged, Held)]

\* updateSurprises: timers, release of stuck enemies, removal of exploded surprises
UpdateSurprises(gs, stuck) ==
    LET ticked == TickBombs(gs.surprises)
        expired == ExpiredIds(gs.surprises)
        KeepBomb(b) == b.state # "exploded"
        NotReleased(se) == se.bombId \notin expired
        aged == [i \in 1 .. Len(SelectSeq(stuck, NotReleased)) |->
                    [SelectSeq(stuck, NotReleased)[i] EXCEPT
                        !.stuckTime = SelectSeq(stuck, NotReleased)[i].stuckTime + 1]]
        Held(se) == se.stuckTime < se.maxStuckTime
    IN  [gs |-> [gs EXCEPT !.surprises = SelectSeq(ticked, KeepBomb)],
         stuck |-> SelectSeq(aged, Held)]

\* a checkPlayerCollection that makes the surprise magnetic at once;
\* LifecycleInOrder rules it out
CheckPlayerCollectionMagnetic(gs) ==
    LET Reached(b) ==
            /\ b.state = "inactive"
            /\ 100 * ((gs.player.x - b.x) * (gs.player.x - b.x)
                        + (gs.player.y - b.y) * (gs.player.y - b.y))
                 < 49 * gridSize * gridSize
        n == Cardinality({i \in 1 .. Len(gs.surprises) : Reached(gs.surprises[i])})
    IN  [gs EXCEPT !.surprises = [i \in 1 .. Len(gs.surprises) |->
                                     IF Reached(gs.surprises[i])
                                     THEN [gs.surprises[i] EXCEPT !.state = "magnetic",
                                                                  !.timer = 0]
                                     ELSE gs.surprises[i]],
                   !.score = gs.score + CollectBonus * n]

\* checkPlayerCollection: an inactive surprise within 0.7 cell of the player is activated
CheckPlayerCollection(gs) ==
    LET Reached(b) ==
            /\ b.state = "inactive"
            /\ 100 * ((gs.player.x - b.x) * (gs.player.x - b.x)
                        + (gs.player.y - b.y) * (gs.player.y - b.y))
                 < 49 * gridSize * gridSize
        n == Cardinality({i \in 1 .. Len(gs.surprises) : Reached(gs.surprises[i])})
    IN  [gs EXCEPT !.surprises = [i \in 1 .. Len(gs.surprises) |->
                                     IF Reached(gs.surprises[i])
                                     THEN [gs.surprises[i] EXCEPT !.state = "activated",
                                                                  !.timer = 0]
                                     ELSE gs.surprises[i]],
                   !.score = gs.score + CollectBonus * n]

\* the delay collectSurprise gives its setTimeout, and the rate useGameLoop
\* holds updateGame to
MagneticDelayMs == 200
LoopFps == 60
\* useGameLoop skips a frame that comes less than 1000 / LoopFps ms after the last
\* tick, so no more than this many ticks run before a callback that is due
TimeoutTicks == ((MagneticDelayMs * LoopFps) \div 1000) + 1

\* the ids of the surprises collectSurprise activated in a checkPlayerCollection
Collected(before, after) ==
    {after[i].id : i \in {j \in 1 .. Len(after) :
                             before[j].state = "inactive" /\ after[j].state = "activated"}}

\* the pending callbacks after a tick: one tick older, less those whose surprise
\* object has left the list, plus one for each surprise collected in the tick
NextTimers(timers, collected, bombs) ==
    {[id |-> t.id, age |-> t.age + 1] :
        t \in {u \in timers : \E i \in 1 .. Len(bombs) : bombs[i].id = u.id}}
      \cup {[id |-> c, age |-> 0] : c \in collected}

\* a frame may run: no callback has been due for longer than the frames allow
CanTick(timers) == \A t \in timers : t.age < TimeoutTicks

\* the callback of collectSurprise for the surprise with this id
MagneticCallback(bombs, id) ==
    [i \in 1 .. Len(bombs) |->
        IF bombs[i].id = id /\ bombs[i].state = "activated"
        THEN [bombs[i] EXCEPT !.state = "magnetic"]
        ELSE bombs[i]]

Sign(a) == IF a > 0 THEN 1 ELSE IF a < 0 THEN -1 ELSE 0

\* stickEnemyToBomb: the enemy is put 0.7 cell from the bomb along the line from the
\* bomb to the enemy (whole pixels, truncated), and stays where it is at distance 0
StickPosition(e, b) ==
    LET dx == e.x - b.x
        dy == e.y - b.y
        d2 == dx * dx + dy * dy
    IN  IF d2 = 0 THEN e
        ELSE [x |-> b.x + Sign(dx) * ISqrt((49 * gridSize * gridSize * dx * dx) \div (100 * d2)),
              y |-> b.y + Sign(dy) * ISqrt((49 * gridSize * gridSize * dy * dy) \div (100 * d2))]

\* checkEnemyBombCollisions: bombs in order, enemies in order; k counts the pairs
RECURSIVE StickLoop(_, _, _)
StickLoop(gs, stuck, k) ==
    LET ne == Len(gs.enemies)
        bi == 1 + ((k - 1) \div ne)
        ei == 1 + ((k - 1) % ne)
        b == gs.surprises[bi]
        e == gs.enemies[ei]
    IN  IF ne = 0 \/ k > Len(gs.surprises) * ne THEN [gs |-> gs, stuck |-> stuck]
        ELSE IF /\ b.state = "magnetic"
                /\ ~\E s \in 1 .. Len(stuck) : stuck[s].enemyIndex = ei
                /\ 100 * ((e.x - b.x) * (e.x - b.x) + (e.y - b.y) * (e.y - b.y))
                     < 64 * gridSize * gridSize
        THEN StickLoop([gs EXCEPT !.enemies[ei] = StickPosition(e, b),
                                  !.score = gs.score + StickBonus],
                       Append(stuck, [enemyIndex |-> ei, bombId |-> b.id,
                                      stuckTime |-> 0, maxStuckTime |-> 180]),
                       k + 1)
        ELSE StickLoop(gs, stuck, k + 1)

CheckEnemyBombCollisions(gs, stuck) == StickLoop(gs, stuck, 1)

\* clearAllSurprises
ClearAllSurprises(gs) == [gs EXCEPT !.surprises = <<>>]

(***************************************************************************)
(* GameLogic.updateGame, the branch taken outside a level transition.      *)
(* keys: the keys held; vs: the steering result of each enemy; draws: what *)
(* the findSafeSpawnPosition calls return.  The result carries the state,  *)
(* the private fields of the managers and a record of what the tick did.   *)
(***************************************************************************)
\* an updateGame that updates the trail before it checks the collisions;
\* TickStepsInOrder rules it out
UpdateGameTrailFirst(gs0, keys, vs, draws, lastPos, counter, stuck) ==
    LET sp == IF gs0.filledCells = {}
              THEN SpawnLoop(InitializeLives(InitializeBorder(gs0)), counter, 1, draws)
              ELSE [gs |-> gs0, counter |-> counter]
        g1 == CheckForExtraLife(sp.gs)
        us == UpdateSurprises(g1, stuck)
        g2 == CheckPlayerCollection(us.gs)
        eb == CheckEnemyBombCollisions(g2, us.stuck)
        g3 == UpdatePlayerMovement(eb.gs, keys)
        g4 == UpdateEnemies(g3, vs)
        ut == UpdateTrail(g4, lastPos)
        g5 == CheckCollisions(ut.gs)
        died == g4.isAlive /\ ~g5.isAlive
        hd == IF died THEN HandlePlayerDeath(g5) ELSE [gs |-> g5, continueGame |-> TRUE]
        over == died /\ ~hd.continueGame
        g6 == IF over THEN ClearAllSurprises(hd.gs) ELSE hd.gs
        done == CheckLevelCompletion(g6)
        g7 == IF done THEN AdvanceLevel(g6) ELSE g6
    IN  [gs |-> g7,
         lastPos |-> ut.lastPos,
         counter |-> IF over THEN 0 ELSE sp.counter,
         stuck |-> IF over THEN <<>> ELSE eb.stuck,
         collected |-> Collected(us.gs.surprises, g2.surprises),
         tick |-> [kind |-> "play",
                   stayedOpen |-> /\ CellAt(g3.player) = CellAt(gs0.player)
                                  /\ ~PlayerInFilledArea(g4),
                   safe |-> PlayerInFilledArea(g4),
                   near |-> \E i \in 1 .. Len(g4.enemies) :
                                EnemyNearPlayer(g4.enemies[i], g4.player),
                   trailHit |-> \E i \in 1 .. Len(g4.enemies), t \in 1 .. Len(g4.trail) :
                                    EnemyNearTrail(g4.enemies[i], g4.trail[t]),
                   onTrail |-> \E i \in 1 .. Len(g4.enemies) :
                                   CellAt(g4.enemies[i]) \in TrailCells(g4.trail),
                   killed |-> died,
                   livesAtCheck |-> g4.lives,
                   areaAtCheck |-> ut.gs.areaFilled,
                   scoreAtCheck |-> ut.gs.score,
                   expired |-> ExpiredIds(g1.surprises),
                   spawned |-> IF gs0.filledCells = {} THEN 1 ELSE 0,
                   freed |-> {stuck[i].enemyIndex :
                                 i \in {j \in 1 .. Len(stuck) :
                                           stuck[j].bombId \in ExpiredIds(g1.surprises)}}],
         claim |-> ut.claim]

UpdateGame(gs0, keys, vs, draws, lastPos, counter, stuck) ==
    LET sp == IF gs0.filledCells = {}
              THEN SpawnLoop(InitializeLives(InitializeBorder(gs0)), counter, 1, draws)
              ELSE [gs |-> gs0, counter |-> counter]
        g1 == CheckForExtraLife(sp.gs)
        us == UpdateSurprises(g1, stuck)
        g2 == CheckPlayerCollection(us.gs)
        eb == CheckEnemyBombCollisions(g2, us.stuck)
        g3 == UpdatePlayerMovement(eb.gs, keys)
        g4 == UpdateEnemies(g3, vs)
        g5 == CheckCollisions(g4)
        died == g4.isAlive /\ ~g5.isAlive
        hd == IF died THEN HandlePlayerDeath(g5) ELSE [gs |-> g5, continueGame |-> TRUE]
        over == died /\ ~hd.continueGame
        g6 == IF over THEN ClearAllSurprises(hd.gs) ELSE hd.gs
        ut == UpdateTrail(g6, lastPos)
        done == CheckLevelCompletion(ut.gs)
        g7 == IF done THEN AdvanceLevel(ut.gs) ELSE ut.gs
    IN  [gs |-> g7,
         lastPos |-> ut.lastPos,
         counter |-> IF over THEN 0 ELSE sp.counter,
         stuck |-> IF over THEN <<>> ELSE eb.stuck,
         collected |-> Collected(us.gs.surprises, g2.surprises),
         tick |-> [kind |-> "play",
                   stayedOpen |-> /\ CellAt(g3.player) = CellAt(gs0.player)
                                  /\ ~PlayerInFilledArea(g4),
                   safe |-> PlayerInFilledArea(g4),
                   near |-> \E i \in 1 .. Len(g4.enemies) :
                                EnemyNearPlayer(g4.enemies[i], g4.player),
                   trailHit |-> \E i \in 1 .. Len(g4.enemies), t \in 1 .. Len(g4.trail) :
                                    EnemyNearTrail(g4.enemies[i], g4.trail[t]),
                   onTrail |-> \E i \in 1 .. Len(g4.enemies) :
                                   CellAt(g4.enemies[i]) \in TrailCells(g4.trail),
                   killed |-> died,
                   livesAtCheck |-> g4.lives,
                   areaAtCheck |-> ut.gs.areaFilled,
                   scoreAtCheck |-> ut.gs.score,
                   expired |-> ExpiredIds(g1.surprises),
                   spawned |-> IF gs0.filledCells = {} THEN 1 ELSE 0,
                   freed |-> {stuck[i].enemyIndex :
                                 i \in {j \in 1 .. Len(stuck) :
                                           stuck[j].bombId \in ExpiredIds(g1.surprises)}}],
         claim |-> ut.claim]

NoTick(kind) == [kind |-> kind, stayedOpen |-> FALSE,
                 safe |-> FALSE, near |-> FALSE, trailHit |-> FALSE,
                 killed |-> FALSE, livesAtCheck |-> 0, areaAtCheck |-> 0,
                 scoreAtCheck |-> 0, expired |-> {}, freed |-> {},
                 spawned |-> 0, onTrail |-> FALSE, highScoreQuery |-> FALSE]

\* the state XonixGame builds on mount and in resetGame
NewGame ==
    [player |-> [x |-> 0, y |-> 0, vx |-> 0, vy |-> 0],
     enemies |-> << [x |-> canvasWidth \div 2, y |-> canvasHeight \div 2] >>,
     trail |-> <<>>, filledCells |-> {}, score |-> 0, areaFilled |-> 0,
     isAlive |-> TRUE, level |-> 1, enemyCount |-> 1, isLevelTransition |-> FALSE,
     surprises |-> <<>>,
     \* the lives fields are absent until initializeLives runs
     lives |-> 0, maxLives |-> 0, lastLifeScore |-> 0]

\* the assignment of a GameState record to the state variables
SetState(gs) ==
    /\ player' = gs.player
    /\ enemies' = gs.enemies
    /\ trail' = gs.trail
    /\ filledCells' = gs.filledCells
    /\ score' = gs.score
    /\ areaFilled' = gs.areaFilled
    /\ isAlive' = gs.isAlive
    /\ level' = gs.level
    /\ enemyCount' = gs.enemyCount
    /\ isLevelTransition' = gs.isLevelTransition
    /\ surprises' = gs.surprises
    /\ lives' = gs.lives
    /\ maxLives' = gs.maxLives
    /\ lastLifeScore' = gs.lastLifeScore

GameInit ==
    /\ player = NewGame.player
    /\ enemies = NewGame.enemies
    /\ trail = NewGame.trail
    /\ filledCells = NewGame.filledCells
    /\ score = NewGame.score
    /\ areaFilled = NewGame.areaFilled
    /\ isAlive = NewGame.isAlive
    /\ level = NewGame.level
    /\ enemyCount = NewGame.enemyCount
    /\ isLevelTransition = NewGame.isLevelTransition
    /\ surprises = NewGame.surprises
    /\ lives = NewGame.lives
    /\ maxLives = NewGame.maxLives
    /\ lastLifeScore = NewGame.lastLifeScore
    /\ transitionFrameCounter = 0
    /\ lastPlayerPosition = <<>>
    /\ surpriseIdCounter = 0
    /\ stuckEnemies = <<>>
    /\ magneticTimers = {}
    /\ lastTick = NoTick("none")
    /\ lastClaim = NoClaim

\* no flood fill is being stepped
IdleFill == [pc |-> "idle", filled |-> {}, trailSet |-> {}, seed |-> <<0, 0>>,
             visited0 |-> {}, st |-> [stack |-> <<>>, visited |-> {}, area |-> {}]]

\* no spawnLevelSurprises call is being stepped
IdleSpawn == [pc |-> "idle", i |-> 0, attempt |-> 0, old |-> 0]

\* the enemy of a new game, { vx: 1, vy: 0.8 }, before EnemyPhysics has seen it:
\* no baseVelocities entry, not stuck, no updateEnemies call yet
IdlePhysics == [v |-> [vx |-> 100, vy |-> 80], base |-> <<>>, after |-> <<>>,
                stuck |-> FALSE, original |-> [vx |-> 0, vy |-> 0], ticks |-> 0]

Init == GameInit /\ fill = IdleFill /\ spawn = IdleSpawn /\ physics = IdlePhysics

\* a frame of the game loop outside a transition.  XonixGame.updateGame returns
\* at once when the player is dead, and asks HighScoreManager.isHighScore when
\* the state it got back is dead
PlayTick ==
    /\ isAlive
    /\ ~isLevelTransition
    /\ score < MaxScore
    /\ CanTick(magneticTimers)
    /\ \E keys \in KeySets, vs \in [1 .. Len(enemies) -> Velocities] :
         \E draws \in (IF filledCells = {}
                       THEN SpawnDraws(InitializeLives(InitializeBorder(GS)), BombCount(GS))
                       ELSE {<<>>}) :
           \E r \in {UpdateGame(GS, keys, vs, draws, lastPlayerPosition,
                                surpriseIdCounter, stuckEnemies)} :
              /\ SetState(r.gs)
              /\ transitionFrameCounter' = 0
              /\ lastPlayerPosition' = r.lastPos
              /\ surpriseIdCounter' = r.counter
              /\ stuckEnemies' = r.stuck
              /\ magneticTimers' = NextTimers(magneticTimers, r.collected, r.gs.surprises)
              /\ lastTick' = r.tick @@ [highScoreQuery |-> isAlive /\ ~r.gs.isAlive]
              /\ lastClaim' = r.claim
    /\ UNCHANGED <<fill, spawn, physics>>

\* a frame of the game loop during the transition pause
TransitionTick ==
    /\ isAlive
    /\ isLevelTransition
    /\ CanTick(magneticTimers)
    /\ IF transitionFrameCounter + 1 >= TRANSITION_DURATION_FRAMES
       THEN \E draws \in SpawnDraws(CompleteLevelTransition(GS), BombCount(GS)) :
              \E r \in {SpawnLoop(CompleteLevelTransition(GS), surpriseIdCounter, 1, draws)} :
                 /\ SetState(r.gs)
                 /\ surpriseIdCounter' = r.counter
                 /\ transitionFrameCounter' = 0
       ELSE /\ transitionFrameCounter' = transitionFrameCounter + 1
            /\ UNCHANGED <<gsVars, surpriseIdCounter>>
    /\ magneticTimers' = NextTimers(magneticTimers, {}, surprises)
    /\ lastTick' = [NoTick("pause") EXCEPT
                      !.spawned = IF transitionFrameCounter + 1 >= TRANSITION_DURATION_FRAMES
                                  THEN 1 ELSE 0]
    /\ lastClaim' = NoClaim
    /\ UNCHANGED <<lastPlayerPosition, stuckEnemies, fill, spawn, physics>>

\* LevelTransition's onComplete timer: XonixGame clears the flag
TransitionOnComplete ==
    /\ isLevelTransition
    /\ isLevelTransition' = FALSE
    /\ lastTick' = NoTick("complete")
    /\ lastClaim' = NoClaim
    /\ UNCHANGED <<player, enemies, trail, filledCells, score, areaFilled, isAlive,
                   level, enemyCount, surprises, lives, maxLives, lastLifeScore, logicVars,
                   magneticTimers, fill, spawn, physics>>

\* XonixGame.resetGame after a game over: a new GameState, the same GameLogic.
\* No surprise object of the old state is in the new one, so a callback still
\* pending can change nothing any more
Restart ==
    /\ ~isAlive
    /\ SetState(NewGame)
    /\ magneticTimers' = {}
    /\ lastTick' = NoTick("restart")
    /\ lastClaim' = NoClaim
    /\ UNCHANGED <<logicVars, fill, spawn, physics>>

Next ==
    \/ PlayTick
    \/ TransitionTick
    \/ TransitionOnComplete
    \/ Restart

\* The board of this specification is too small for findSafeSpawnPosition to
\* place a surprise, so no collectSurprise callback is ever pending here; the
\* callback is a step of SpecPickup.
Spec == Init /\ [][Next]_vars

(***************************************************************************)
(* FloodFill.floodFill on its own: calls on a FillW x FillH grid with any  *)
(* filled set, an empty or one-cell trail set and any seed, one loop       *)
(* iteration per step.  The visited set is shared by successive calls, as  *)
(* completeArea shares it.                                                 *)
(***************************************************************************)
FillW == 3
FillH == 2
FillCells == (0 .. FillW - 1) \X (0 .. FillH - 1)
\* the seeds tried: every cell and the ring of cells just outside the grid
FillSeeds == (-1 .. FillW) \X (-1 .. FillH)

FillInputs ==
    {[IdleFill EXCEPT !.filled = f, !.trailSet = t] :
        f \in SUBSET FillCells, t \in {{}} \cup {{c} : c \in FillCells}}

InitFill == GameInit /\ fill \in FillInputs /\ spawn = IdleSpawn /\ physics = IdlePhysics

\* the call: the stack holds the seed, visited is the caller's set
StartFill ==
    /\ fill.pc \in {"idle", "done"}
    /\ \E seed \in FillSeeds :
         fill' = [fill EXCEPT !.pc = "loop", !.seed = seed,
                              !.visited0 = fill.st.visited,
                              !.st = [stack |-> <<seed>>, visited |-> fill.st.visited,
                                      area |-> {}]]
    /\ UNCHANGED <<gsVars, logicVars, magneticTimers, lastTick, lastClaim, spawn, physics>>

\* one iteration of while (stack.length > 0)
FillStep ==
    /\ fill.pc = "loop"
    /\ fill.st.stack # <<>>
    /\ fill' = [fill EXCEPT !.st = FloodStep(fill.st, FillW, FillH, fill.filled, fill.trailSet)]
    /\ UNCHANGED <<gsVars, logicVars, magneticTimers, lastTick, lastClaim, spawn, physics>>

\* the loop ends and the area is returned
FillReturn ==
    /\ fill.pc = "loop"
    /\ fill.st.stack = <<>>
    /\ fill' = [fill EXCEPT !.pc = "done"]
    /\ UNCHANGED <<gsVars, logicVars, magneticTimers, lastTick, lastClaim, spawn, physics>>

NextFill ==
    \/ StartFill
    \/ FillStep
    \/ FillReturn

\* a started call runs its loop to the end
SpecFill == InitFill /\ [][NextFill]_vars /\ WF_vars(FillStep) /\ WF_vars(FillReturn)

(***************************************************************************)
(* The lives bookkeeping of updateGame over a long game.  The board of the *)
(* model cannot score 150000 points, so here a tick's movement, its enemy  *)
(* positions and the points its trail update and level bonus add are       *)
(* inputs; the border and lives initialisation, the extra-life check, the  *)
(* collision check and the death handling are the operators of the tick.   *)
(***************************************************************************)
MaxLifeThresholds == 9
\* gameplay is followed until the score has passed this many multiples
MaxLifeScore == MaxLifeThresholds * LIFE_SCORE_INTERVAL

\* the points one tick may add: none, or the score of a claim of 500 or of 1600
\* cells (30 n + floor(5 n^1.5)) on a board of 80 x 60 cells
ScoreGains == {0, 70901, 368000}

\* where the movement leaves the player: stopped on the origin, or moving in
\* the open cell (1, 1)
LivesPlayers == {[x |-> 0, y |-> 0, vx |-> 0, vy |-> 0],
                 [x |-> gridSize, y |-> gridSize, vx |-> PlayerStep, vy |-> 0]}

\* where the enemy update leaves the enemy: on the open cell (1, 1), or at the centre
LivesEnemies == {<< [x |-> gridSize, y |-> gridSize] >>,
                 << [x |-> canvasWidth \div 2, y |-> canvasHeight \div 2] >>}

\* the score the previous extra-life check of this game saw
SeenScore == IF lastTick.kind = "lives" THEN lastTick.seen ELSE 0

\* updateGame with the movement result pl, the enemy positions es and the points
\* gain of the steps after the death handling
LivesGame(gs0, pl, es, gain, draws, counter, stuck, seen) ==
    LET sp == IF gs0.filledCells = {}
              THEN SpawnLoop(InitializeLives(InitializeBorder(gs0)), counter, 1, draws)
              ELSE [gs |-> gs0, counter |-> counter]
        g1 == CheckForExtraLife(sp.gs)
        g4 == [g1 EXCEPT !.player = pl, !.enemies = es]
        g5 == CheckCollisions(g4)
        died == g4.isAlive /\ ~g5.isAlive
        hd == IF died THEN HandlePlayerDeath(g5) ELSE [gs |-> g5, continueGame |-> TRUE]
        over == died /\ ~hd.continueGame
        g6 == IF over THEN ClearAllSurprises(hd.gs) ELSE hd.gs
        g7 == [g6 EXCEPT !.score = g6.score + gain]
    IN  [gs |-> g7,
         counter |-> IF over THEN 0 ELSE sp.counter,
         stuck |-> IF over THEN <<>> ELSE stuck,
         tick |-> [kind |-> "lives",
                   seen |-> sp.gs.score,
                   crossed |-> (sp.gs.score \div LIFE_SCORE_INTERVAL)
                                  - (seen \div LIFE_SCORE_INTERVAL),
                   room |-> sp.gs.lives < sp.gs.maxLives,
                   awarded |-> g1.lives - sp.gs.lives,
                   livesAtCheck |-> g4.lives,
                   killed |-> died]]

LivesTick ==
    /\ isAlive
    /\ ~isLevelTransition
    /\ score < MaxLifeScore
    /\ \E pl \in LivesPlayers, es \in LivesEnemies, gain \in ScoreGains :
         \E draws \in (IF filledCells = {}
                       THEN SpawnDraws(InitializeLives(InitializeBorder(GS)), BombCount(GS))
                       ELSE {<<>>}) :
           \E r \in {LivesGame(GS, pl, es, gain, draws, surpriseIdCounter, stuckEnemies,
                                SeenScore)} :
              /\ SetState(r.gs)
              /\ transitionFrameCounter' = 0
              /\ surpriseIdCounter' = r.counter
              /\ stuckEnemies' = r.stuck
              /\ lastTick' = r.tick
    /\ UNCHANGED <<lastPlayerPosition, magneticTimers, lastClaim, fill, spawn, physics>>

NextLives ==
    \/ LivesTick
    \/ Restart

SpecLives == Init /\ [][NextLives]_vars

(***************************************************************************)
(* The surprises over their lifetime.  A game is taken up after its first  *)
(* tick with one time bomb on the board, either still inactive or magnetic *)
(* and about to expire.  The bomb lies on the open cell (2, 1): the model's *)
(* board has no cell three cells from every edge.  A tick's movement and   *)
(* enemy positions and the outcome of its level-completion test are        *)
(* inputs; the surprise update, collection and sticking, the collision     *)
(* check, the death handling and the level advance are the operators of    *)
(* the tick.  The setTimeout callback of collectSurprise is a step of its   *)
(* own, taken between two frames.                                          *)
(***************************************************************************)
\* the ticks an initial magnetic bomb has left before it expires
BombTicksLeft == 3
\* ticks are followed while every bomb timer is within this many ticks of its
\* start or of its end
TimerWindow == 20
\* the level advance is followed up to this level
MaxPickupLevel == 2

BombSpot == [x |-> 2 * gridSize, y |-> gridSize]

\* the time bomb spawnLevelSurprises makes, in one of the states it is taken up in
InitBombs ==
    {<< [id |-> 0, type |-> "timeBomb", state |-> st[1], timer |-> st[2],
         maxTimer |-> 600, x |-> BombSpot.x, y |-> BombSpot.y] >> :
        st \in {<<"inactive", 0>>, <<"magnetic", 600 - BombTicksLeft>>}}

\* where the movement leaves the player: stopped on the origin, or moving on the bomb
PickupPlayers == {[x |-> 0, y |-> 0, vx |-> 0, vy |-> 0],
                  [x |-> BombSpot.x, y |-> BombSpot.y, vx |-> PlayerStep, vy |-> 0]}

\* where the enemy update leaves an enemy: on the bomb, or at the centre
PickupEnemySpots == {[x |-> BombSpot.x, y |-> BombSpot.y],
                     [x |-> canvasWidth \div 2, y |-> canvasHeight \div 2]}

\* the variables hold the GameState gs
StateIs(gs) ==
    /\ player = gs.player
    /\ enemies = gs.enemies
    /\ trail = gs.trail
    /\ filledCells = gs.filledCells
    /\ score = gs.score
    /\ areaFilled = gs.areaFilled
    /\ isAlive = gs.isAlive
    /\ level = gs.level
    /\ enemyCount = gs.enemyCount
    /\ isLevelTransition = gs.isLevelTransition
    /\ surprises = gs.surprises
    /\ lives = gs.lives
    /\ maxLives = gs.maxLives
    /\ lastLifeScore = gs.lastLifeScore

\* after the first tick of a game; a magnetic bomb has been collected
InitPickup ==
    /\ \E bombs \in InitBombs :
         StateIs([InitializeLives(InitializeBorder(NewGame)) EXCEPT
                    !.surprises = bombs,
                    !.score = IF bombs[1].state = "inactive" THEN 0 ELSE CollectBonus])
    /\ transitionFrameCounter = 0
    /\ lastPlayerPosition = <<0, 0>>
    /\ surpriseIdCounter = 1
    /\ stuckEnemies = <<>>
    /\ magneticTimers = {}
    /\ lastTick = NoTick("none")
    /\ lastClaim = NoClaim
    /\ fill = IdleFill
    /\ spawn = IdleSpawn /\ physics = IdlePhysics

\* updateGame with the movement result pl, the enemy positions es and the
\* outcome advance of checkLevelCompletion
PickupGame(gs0, pl, es, advance, draws, counter, stuck) ==
    LET sp == IF gs0.filledCells = {}
              THEN SpawnLoop(InitializeLives(InitializeBorder(gs0)), counter, 1, draws)
              ELSE [gs |-> gs0, counter |-> counter]
        g1 == CheckForExtraLife(sp.gs)
        us == UpdateSurprises(g1, stuck)
        g2 == CheckPlayerCollection(us.gs)
        eb == CheckEnemyBombCollisions(g2, us.stuck)
        g4 == [eb.gs EXCEPT !.player = pl, !.enemies = es]
        g5 == CheckCollisions(g4)
        died == g4.isAlive /\ ~g5.isAlive
        hd == IF died THEN HandlePlayerDeath(g5) ELSE [gs |-> g5, continueGame |-> TRUE]
        over == died /\ ~hd.continueGame
        g6 == IF over THEN ClearAllSurprises(hd.gs) ELSE hd.gs
        g7 == IF advance /\ ~died /\ PlayerInFilledArea(g6) THEN AdvanceLevel(g6) ELSE g6
    IN  [gs |-> g7,
         counter |-> IF over THEN 0 ELSE sp.counter,
         stuck |-> IF over THEN <<>> ELSE eb.stuck,
         collected |-> Collected(us.gs.surprises, g2.surprises),
         tick |-> [kind |-> "pickup",
                   spawned |-> IF gs0.filledCells = {} THEN 1 ELSE 0,
                   safe |-> PlayerInFilledArea(g4),
                   collected |-> Collected(us.gs.surprises, g2.surprises),
                   collectGain |-> g2.score - us.gs.score,
                   collectLevel |-> g2.level,
                   sticks |-> Len(eb.stuck) - Len(us.stuck),
                   stickGain |-> eb.gs.score - g2.score,
                   exploded |-> {g1.surprises[i].id : i \in 1 .. Len(g1.surprises)}
                                  \ {us.gs.surprises[i].id : i \in 1 .. Len(us.gs.surprises)},
                   killed |-> died]]

PickupTick ==
    /\ isAlive
    /\ ~isLevelTransition
    /\ CanTick(magneticTimers)
    /\ \A i \in 1 .. Len(surprises) :
          \/ surprises[i].timer < TimerWindow
          \/ surprises[i].timer >= surprises[i].maxTimer - TimerWindow
    /\ \E pl \in PickupPlayers, es \in [1 .. Len(enemies) -> PickupEnemySpots],
          advance \in {a \in BOOLEAN : a => level < MaxPickupLevel} :
         \E draws \in (IF filledCells = {}
                       THEN SpawnDraws(InitializeLives(InitializeBorder(GS)), BombCount(GS))
                       ELSE {<<>>}) :
           \E r \in {PickupGame(GS, pl, es, advance, draws, surpriseIdCounter,
                                 stuckEnemies)} :
              /\ SetState(r.gs)
              /\ transitionFrameCounter' = 0
              /\ surpriseIdCounter' = r.counter
              /\ stuckEnemies' = r.stuck
              /\ magneticTimers' = NextTimers(magneticTimers, r.collected, r.gs.surprises)
              /\ lastTick' = r.tick
    /\ UNCHANGED <<lastPlayerPosition, lastClaim, fill, spawn, physics>>

\* the callback collectSurprise handed to setTimeout runs
MagneticTimeout ==
    /\ \E t \in magneticTimers :
         /\ surprises' = MagneticCallback(surprises, t.id)
         /\ magneticTimers' = magneticTimers \ {t}
    /\ lastTick' = NoTick("timeout")
    /\ UNCHANGED <<player, enemies, trail, filledCells, score, areaFilled, isAlive,
                   level, enemyCount, isLevelTransition, lives, maxLives, lastLifeScore,
                   logicVars, lastClaim, fill, spawn, physics>>

NextPickup ==
    \/ PickupTick
    \/ TransitionTick
    \/ TransitionOnComplete
    \/ MagneticTimeout
    \/ Restart

SpecPickup == InitPickup /\ [][NextPickup]_vars

(***************************************************************************)
(* An enemy and a magnetic time bomb.  The game is taken up with the bomb  *)
(* on the board, just magnetic, or half-way with an enemy about to be      *)
(* released, or about to expire with an enemy stuck to it (the enemy is    *)
(* where stickEnemyToBomb put it, 0.7 cell below the bomb).  No key is     *)
(* held, so the player stays on the origin; each tick is the whole         *)
(* updateGame with the enemy's steering result as its input.               *)
(***************************************************************************)
\* the ticks an initially stuck enemy has left before its release
StuckTicksLeft == 3
\* the timer of the initial bomb in the half-way state
MidTimer == 300

\* << bomb state timer, stuckTime of the enemy's record (-1: not stuck) >>
StuckStarts == {<<1, -1>>,
                <<MidTimer, 180 - StuckTicksLeft>>,
                <<600 - BombTicksLeft, TimerWindow \div 2>>}

InitStuck ==
    /\ \E st \in StuckStarts :
         /\ StateIs([InitializeLives(InitializeBorder(NewGame)) EXCEPT
                       !.surprises = << [id |-> 0, type |-> "timeBomb", state |-> "magnetic",
                                         timer |-> st[1], maxTimer |-> 600,
                                         x |-> BombSpot.x, y |-> BombSpot.y] >>,
                       !.enemies = IF st[2] < 0 THEN NewGame.enemies
                                   ELSE << StickPosition([x |-> BombSpot.x,
                                                          y |-> BombSpot.y + 1], BombSpot) >>,
                       !.score = IF st[2] < 0 THEN CollectBonus
                                 ELSE CollectBonus + StickBonus])
         /\ stuckEnemies = IF st[2] < 0 THEN <<>>
                           ELSE << [enemyIndex |-> 1, bombId |-> 0, stuckTime |-> st[2],
                                    maxStuckTime |-> 180] >>
    /\ transitionFrameCounter = 0
    /\ lastPlayerPosition = <<0, 0>>
    /\ surpriseIdCounter = 1
    /\ magneticTimers = {}
    /\ lastTick = NoTick("none")
    /\ lastClaim = NoClaim
    /\ fill = IdleFill
    /\ spawn = IdleSpawn /\ physics = IdlePhysics

\* a frame of the game loop with no key held
StuckTick ==
    /\ isAlive
    /\ ~isLevelTransition
    /\ \A i \in 1 .. Len(surprises) :
          \/ surprises[i].timer < TimerWindow
          \/ surprises[i].timer >= MidTimer /\ surprises[i].timer < MidTimer + TimerWindow
          \/ surprises[i].timer >= surprises[i].maxTimer - TimerWindow
    /\ \E vs \in [1 .. Len(enemies) -> Velocities] :
         \E r \in {UpdateGame(GS, {}, vs, <<>>, lastPlayerPosition,
                              surpriseIdCounter, stuckEnemies)} :
            /\ SetState(r.gs)
            /\ transitionFrameCounter' = 0
            /\ lastPlayerPosition' = r.lastPos
            /\ surpriseIdCounter' = r.counter
            /\ stuckEnemies' = r.stuck
            /\ magneticTimers' = NextTimers(magneticTimers, r.collected, r.gs.surprises)
            /\ lastTick' = r.tick @@ [highScoreQuery |-> isAlive /\ ~r.gs.isAlive]
            /\ lastClaim' = r.claim
    /\ UNCHANGED <<fill, spawn, physics>>

NextStuck == StuckTick

SpecStuck == InitStuck /\ [][NextStuck]_vars

(***************************************************************************)
(* SurpriseManager.spawnLevelSurprises on its own, one placement attempt   *)
(* of findSafeSpawnPosition per step, on a board of SpawnW x SpawnH cells  *)
(* that has cells three cells from every edge.  The argument of the call   *)
(* is a state with the border claimed and with the player, an enemy, a     *)
(* trail cell, a claimed cell and an older surprise near the cells that    *)
(* can be drawn, or away from them.                                        *)
(***************************************************************************)
SpawnW == 11
SpawnH == 7
\* the attempts of findSafeSpawnPosition
attempts == 50

SpawnBorder == {c \in (0 .. SpawnW - 1) \X (0 .. SpawnH - 1) :
                   c[1] = 0 \/ c[1] = SpawnW - 1 \/ c[2] = 0 \/ c[2] = SpawnH - 1}

\* the position of a cell
AtCell(cx, cy) == [x |-> cx * gridSize, y |-> cy * gridSize]

SpawnPlayers == {[x |-> 0, y |-> 0, vx |-> 0, vy |-> 0],
                 AtCell(3, 3) @@ [vx |-> PlayerStep, vy |-> 0]}
\* where the first enemy is; the others are in the far corner
SpawnEnemies == {AtCell(SpawnW - 1, SpawnH - 1), AtCell(SpawnW - 2, 3)}
SpawnTrails == {<<>>, << AtCell(5, 2) >>}
SpawnClaimed == {{}, {<<3, 3>>}}
SpawnOld == {<<>>, << [id |-> 0, type |-> "timeBomb", state |-> "inactive", timer |-> 0,
                       maxTimer |-> 600] @@ AtCell(SpawnW - 4, SpawnH - 4) >>}
\* levels with one, two and three bombs
SpawnLevels == {1, 3, 6}

InitSpawn ==
    /\ \E pl \in SpawnPlayers, e \in SpawnEnemies, tr \in SpawnTrails,
          cl \in SpawnClaimed, old \in SpawnOld, lv \in SpawnLevels :
         /\ StateIs([InitializeLives(NewGame) EXCEPT
                       !.player = pl,
                       !.enemies = [i \in 1 .. lv |->
                                       IF i = 1 THEN e ELSE AtCell(SpawnW - 1, SpawnH - 1)],
                       !.trail = tr,
                       !.filledCells = SpawnBorder \cup cl,
                       !.level = lv, !.enemyCount = lv, !.surprises = old])
         /\ surpriseIdCounter = Len(old)
         /\ spawn = [pc |-> "loop", i |-> 0, attempt |-> 0, old |-> Len(old)]
    /\ transitionFrameCounter = 0
    /\ lastPlayerPosition = <<0, 0>>
    /\ stuckEnemies = <<>>
    /\ magneticTimers = {}
    /\ lastTick = NoTick("none")
    /\ lastClaim = NoClaim
    /\ fill = IdleFill
    /\ physics = IdlePhysics

\* one pass of the attempt loop of findSafeSpawnPosition: a cell is drawn; a safe
\* cell is returned and spawnLevelSurprises pushes the bomb, and after the last
\* attempt null is returned and the bomb is skipped
SpawnAttempt ==
    /\ spawn.pc = "loop"
    /\ spawn.i < BombCount(GS)
    /\ \E c \in SpawnCellsOn(SpawnW, SpawnH) :
         IF SafeSpawnCell(c, GS)
         THEN /\ surprises' = SpawnLoop(GS, surpriseIdCounter, 1, <<c>>).gs.surprises
              /\ surpriseIdCounter' = SpawnLoop(GS, surpriseIdCounter, 1, <<c>>).counter
              /\ spawn' = [spawn EXCEPT !.i = spawn.i + 1, !.attempt = 0]
         ELSE /\ spawn' = IF spawn.attempt + 1 >= attempts
                          THEN [spawn EXCEPT !.i = spawn.i + 1, !.attempt = 0]
                          ELSE [spawn EXCEPT !.attempt = spawn.attempt + 1]
              /\ UNCHANGED <<surprises, surpriseIdCounter>>
    /\ UNCHANGED <<player, enemies, trail, filledCells, score, areaFilled, isAlive,
                   level, enemyCount, isLevelTransition, lives, maxLives, lastLifeScore,
                   transitionFrameCounter, lastPlayerPosition, stuckEnemies,
                   magneticTimers, lastTick, lastClaim, fill, physics>>

\* spawnLevelSurprises returns
SpawnReturn ==
    /\ spawn.pc = "loop"
    /\ spawn.i >= BombCount(GS)
    /\ spawn' = [spawn EXCEPT !.pc = "done"]
    /\ UNCHANGED <<gsVars, logicVars, magneticTimers, lastTick, lastClaim, fill, physics>>

NextSpawn ==
    \/ SpawnAttempt
    \/ SpawnReturn

\* the loops are steps of one call: it runs on
SpecSpawn == InitSpawn /\ [][NextSpawn]_vars /\ WF_vars(SpawnAttempt) /\ WF_vars(SpawnReturn)

(***************************************************************************)
(* The scoring of completeArea on its own: the areas the scan found are    *)
(* two rows of cells of any length up to MaxArea and MaxSecondArea, and    *)
(* the enemy stands in the second row or on the border.                    *)
(***************************************************************************)
MaxArea == 55
MaxSecondArea == 3

\* a row of n cells in row y
AreaRow(n, y) == {<<x, y>> : x \in 1 .. n}

\* the areas the scan hands to the forEach: no empty area is pushed
ScoreAreas == {SelectSeq(<<AreaRow(n1, 1), AreaRow(n2, 2)>>, LAMBDA a : a # {}) :
                  n1 \in 0 .. MaxArea, n2 \in 0 .. MaxSecondArea}

InitScore == Init

\* a resolution of the areas with the enemy at cell (1, 2) or at the origin
ScoreStep ==
    /\ ~lastClaim.ran
    /\ \E areas \in ScoreAreas, e \in {AtCell(1, 2), AtCell(0, 0)} :
         \E r \in {ResolveAreas(areas, <<e>>, {})} :
            /\ score' = score + r.gain
            /\ enemies' = <<e>>
            /\ lastClaim' = [ran |-> TRUE, boundary |-> {}, enemyCells |-> {CellAt(e)},
                             areas |-> areas, filled |-> r.filled, newly |-> r.total,
                             gained |-> r.gain]
    /\ UNCHANGED <<player, trail, filledCells, areaFilled, isAlive, level, enemyCount,
                   isLevelTransition, surprises, lives, maxLives, lastLifeScore,
                   logicVars, magneticTimers, lastTick, fill, spawn, physics>>

NextScore == ScoreStep

SpecScore == InitScore /\ [][NextScore]_vars

(***************************************************************************)
(* EnemyPhysics: the velocity of one enemy through updateEnemies.          *)
(* Velocities are in hundredths of a pixel per tick, and a quotient is     *)
(* truncated towards zero.  What depends on Date.now(), Math.random() and  *)
(* on where the enemy, the player, the bombs and the filled cells are is   *)
(* an input of the tick.                                                   *)
(***************************************************************************)
BASE_SPEED == 120
MAX_SPEED == 550
MIN_SPEED == 30
\* updateEnemies calls followed from a new game
MaxSpeedTicks == 2
\* an enemy is followed while neither component of its velocity exceeds this
MaxVelocity == 2000

TDiv(a, b) == IF a >= 0 THEN a \div b ELSE -((-a) \div b)

ZeroV == [vx |-> 0, vy |-> 0]

\* vx * vx + vy * vy
Speed2(v) == v.vx * v.vx + v.vy * v.vy

\* the largest r in lo .. hi with r * r <= m, by bisection
RECURSIVE RootIn(_, _, _)
RootIn(m, lo, hi) ==
    IF lo >= hi THEN lo
    ELSE LET mid == (lo + hi + 1) \div 2
         IN  IF mid * mid <= m THEN RootIn(m, mid, hi) ELSE RootIn(m, lo, mid - 1)

\* Math.sqrt(m), rounded down; 46340 is the largest root of a 32-bit square
FloorSqrt(m) == RootIn(m, 0, 46340)

\* Math.sqrt(vx * vx + vy * vy), rounded up
SpeedUp(v) ==
    LET r == FloorSqrt(Speed2(v))
    IN  IF r * r = Speed2(v) THEN r ELSE r + 1

\* v * (len / speed): the vector rescaled to the length len, never longer
ScaleTo(v, len) ==
    LET speed == SpeedUp(v)
    IN  [vx |-> TDiv(v.vx * len, speed), vy |-> TDiv(v.vy * len, speed)]

\* v * num / den
Times(v, num, den) == [vx |-> TDiv(v.vx * num, den), vy |-> TDiv(v.vy * num, den)]

Plus(v, w) == [vx |-> v.vx + w.vx, vy |-> v.vy + w.vy]

\* the directions followed, as unit vectors
Directions == {[vx |-> 1, vy |-> 0], [vx |-> 0, vy |-> -1]}

\* accelerateEnemy: below MAX_SPEED the velocity grows by ACCELERATION_BOOST 1.8
\* and is cut back to MAX_SPEED
AccelerateEnemy(v) ==
    IF Speed2(v) < MAX_SPEED * MAX_SPEED
    THEN IF Speed2(Times(v, 18, 10)) > MAX_SPEED * MAX_SPEED
         THEN ScaleTo(Times(v, 18, 10), MAX_SPEED)
         ELSE Times(v, 18, 10)
    ELSE v

\* the magnetic override: three times the force, at most twice MAX_SPEED
MagneticOverride(f) ==
    IF Speed2(Times(f, 3, 1)) > 4 * MAX_SPEED * MAX_SPEED
    THEN ScaleTo(Times(f, 3, 1), 2 * MAX_SPEED)
    ELSE Times(f, 3, 1)

\* applySmoothDeceleration: FRICTION 0.985, and a drift to the base velocity
\* once the last acceleration is ACCELERATION_DECAY_TIME old
ApplySmoothDeceleration(v, base, decays) ==
    IF decays
    THEN [vx |-> TDiv(TDiv(v.vx * 985, 1000) * 988 + base.vx * 12, 1000),
          vy |-> TDiv(TDiv(v.vy * 985, 1000) * 988 + base.vy * 12, 1000)]
    ELSE Times(v, 985, 1000)

\* applyConditionalPlayerAttraction: 0.04 towards a player further away than
\* SEEK_DISTANCE_THRESHOLD (toPlayer is ZeroV when it is nearer)
ApplyConditionalPlayerAttraction(v, toPlayer) ==
    IF toPlayer # ZeroV /\ 4 * Speed2(v) < 9 * BASE_SPEED * BASE_SPEED
    THEN Plus(v, Times(toPlayer, 4, 1))
    ELSE v

\* applyMinimalExploration: below twice MIN_SPEED the exploration force is added
ApplyMinimalExploration(v, e) ==
    IF Speed2(v) < 4 * MIN_SPEED * MIN_SPEED THEN Plus(v, e) ELSE v

\* bounceFromFilledArea with angleVariation 0: the velocity is reflected at
\* the normal and grows by FILLED_BOUNCE_BOOST 3.2; that is the new base
\* velocity, and the enemy is accelerated
BounceFromFilledArea(v, n) ==
    LET dot == v.vx * n.vx + v.vy * n.vy
        boosted == Times([vx |-> v.vx - 2 * dot * n.vx, vy |-> v.vy - 2 * dot * n.vy], 32, 10)
    IN  [v |-> AccelerateEnemy(boosted), base |-> boosted]

\* handleWallCollisions at the wall the direction n points away from: the
\* component turns away from the wall with WALL_BOUNCE_DAMPING 0.96 times
\* FILLED_BOUNCE_BOOST 3.2
WallBounce(v, n) ==
    LET w == [vx |-> IF n.vx # 0 THEN n.vx * TDiv(Abs(v.vx) * 3072, 1000) ELSE v.vx,
              vy |-> IF n.vy # 0 THEN n.vy * TDiv(Abs(v.vy) * 3072, 1000) ELSE v.vy]
    IN  [v |-> AccelerateEnemy(w), base |-> w]

\* separateFromFilledAreas: twice BASE_SPEED along the push direction
SeparateVelocity(n) == [vx |-> n.vx * 2 * BASE_SPEED, vy |-> n.vy * 2 * BASE_SPEED]

\* enforceSpeedLimits with currentSpeed rounded down
EnforceSpeedLimits(v, base) ==
    LET currentSpeed == FloorSqrt(Speed2(v))
    IN  IF Speed2(v) < MIN_SPEED * MIN_SPEED /\ Speed2(v) > 25
        THEN [vx |-> TDiv(base.vx * MIN_SPEED, Max(currentSpeed, 10)),
              vy |-> TDiv(base.vy * MIN_SPEED, Max(currentSpeed, 10))]
        ELSE IF Speed2(v) > MAX_SPEED * MAX_SPEED THEN ScaleTo(v, MAX_SPEED)
        ELSE v

\* the magnetic force on the enemy: none, one bomb or two bombs in line
Forces == {ZeroV, [vx |-> 120, vy |-> 0], [vx |-> 240, vy |-> 0]}

\* the exploration force, Math.sin and Math.cos of the time times 0.08
Explorations == {ZeroV, [vx |-> 8, vy |-> 0]}

\* what the position of the enemy brings in one call: nothing, a bounce from
\* a filled cell, a wall, or the push out of a filled cell, with its direction
Events == {[kind |-> "none", n |-> ZeroV]}
             \cup [kind : {"bounce", "wall", "separate"}, n : Directions]

\* the body of updateEnemies' forEach for the velocity of one enemy
UpdateEnemyVelocity(v, base0, angle, force, decays, toPlayer, explore, event) ==
    LET levelBase == Times(angle, BASE_SPEED, 1)
        base1 == IF base0 = <<>> THEN levelBase ELSE base0
        steered == IF force # ZeroV THEN MagneticOverride(force)
                   ELSE ApplyMinimalExploration(
                          ApplyConditionalPlayerAttraction(
                            ApplySmoothDeceleration(v, base1, decays), toPlayer), explore)
        met == IF event.kind = "bounce" THEN BounceFromFilledArea(steered, event.n)
               ELSE IF event.kind = "wall" THEN WallBounce(steered, event.n)
               ELSE IF event.kind = "separate"
               THEN [v |-> SeparateVelocity(event.n), base |-> base1]
               ELSE [v |-> steered, base |-> base1]
    IN  [v |-> EnforceSpeedLimits(met.v, met.base), base |-> met.base]

InitSpeed == Init

\* one updateEnemies call; a stuck enemy feels no magnetic force
SpeedTick ==
    /\ physics.ticks < MaxSpeedTicks
    /\ Abs(physics.v.vx) <= MaxVelocity /\ Abs(physics.v.vy) <= MaxVelocity
    /\ \E angle \in Directions, force \in Forces, decays \in BOOLEAN,
          toPlayer \in {ZeroV, [vx |-> 1, vy |-> 0]}, explore \in Explorations,
          event \in Events :
         /\ physics.stuck => force = ZeroV
         /\ \E r \in {UpdateEnemyVelocity(physics.v, physics.base, angle, force,
                                          decays, toPlayer, explore, event)} :
               physics' = [physics EXCEPT !.v = r.v, !.base = r.base, !.after = r.v,
                                          !.ticks = physics.ticks + 1]
    /\ UNCHANGED <<gsVars, logicVars, magneticTimers, lastTick, lastClaim, fill, spawn>>

\* stickEnemyToBomb: the velocity is kept as originalVelocity and set to zero
StickEnemy ==
    /\ ~physics.stuck
    /\ physics.after # <<>>
    /\ physics' = [physics EXCEPT !.v = ZeroV, !.stuck = TRUE, !.original = physics.v]
    /\ UNCHANGED <<gsVars, logicVars, magneticTimers, lastTick, lastClaim, fill, spawn>>

\* releaseStuckEnemy: the original speed on a random angle
ReleaseEnemy ==
    /\ physics.stuck
    /\ \E angle \in Directions :
         physics' = [physics EXCEPT !.v = Times(angle, FloorSqrt(Speed2(physics.original)), 1),
                                    !.stuck = FALSE]
    /\ UNCHANGED <<gsVars, logicVars, magneticTimers, lastTick, lastClaim, fill, spawn>>

NextSpeed ==
    \/ SpeedTick
    \/ StickEnemy
    \/ ReleaseEnemy

SpecSpeed == InitSpeed /\ [][NextSpeed]_vars

(***************************************************************************)
(* Properties.                                                             *)
(***************************************************************************)
\* the cells reachable from the cells of S by 4-directional steps through open cells
RECURSIVE Grow(_, _)
Grow(S, open) ==
    LET N == S \cup {c \in open : \E d \in S : Abs(c[1] - d[1]) + Abs(c[2] - d[2]) = 1}
    IN  IF N = S THEN S ELSE Grow(N, open)

\* the maximal open region of a cell, empty when the cell is not open
Region(c, open) == IF c \in open THEN Grow({c}, open) ELSE {}

\* the cells open when the latest claim resolution started its scan
ClaimOpen == AllCells \ lastClaim.boundary

\* C1: a tick that neither advances the level nor restarts the game keeps every
\* cell of filledCells in filledCells.
ClaimedSetOnlyGrows ==
    [][(lastTick'.kind = "play" /\ level' = level) => filledCells \subseteq filledCells']_vars

\* a claim resolution enlarged the claimed set without completing the level
ClaimedSetGrew ==
    /\ lastTick.kind = "play"
    /\ lastClaim.ran
    /\ ~isLevelTransition
    /\ BorderCells \subseteq filledCells
    /\ BorderCells # filledCells

\* C2: at the end of every tick of a session (gameplay, level advance, transition
\* pause) every border cell is in filledCells.
BorderAlwaysClaimed ==
    lastTick.kind \in {"play", "pause"} => BorderCells \subseteq filledCells

\* a tick of the transition pause, after the level was reset
BorderClaimedInPause ==
    /\ lastTick.kind = "pause"
    /\ isLevelTransition
    /\ transitionFrameCounter > 1
    /\ filledCells = BorderCells

\* C3: after a claim resolution every cell of every open region that holds no
\* enemy's cell is in filledCells.
EnemyFreeRegionsClaimed ==
    lastClaim.ran =>
        \A c \in ClaimOpen :
            Region(c, ClaimOpen) \cap lastClaim.enemyCells = {}
                => /\ c \in lastClaim.filled
                   /\ ~isLevelTransition => c \in filledCells

\* a resolution that found an enemy-free region and claimed it
EnemyFreeRegionClaimed ==
    /\ lastClaim.ran
    /\ lastClaim.newly > 0
    /\ \E c \in ClaimOpen : Region(c, ClaimOpen) \cap lastClaim.enemyCells = {}

\* C4: a claim resolution adds no cell of an open region that holds an enemy's cell.
EnemyRegionsStayOpen ==
    lastClaim.ran =>
        \A c \in ClaimOpen :
            Region(c, ClaimOpen) \cap lastClaim.enemyCells # {}
                => /\ c \notin lastClaim.filled
                   /\ ~isLevelTransition => c \notin filledCells

\* a resolution that claimed one region and left another, with an enemy, open
EnemyRegionLeftOpen ==
    /\ lastClaim.ran
    /\ lastClaim.newly > 0
    /\ \E c \in ClaimOpen : Region(c, ClaimOpen) \cap lastClaim.enemyCells # {}

\* C6: the regions of one resolution pass are pairwise disjoint, every open cell
\* lies in exactly one of them, and with the boundary they cover the grid.
RegionsPartitionOpenCells ==
    lastClaim.ran =>
        LET a == lastClaim.areas
        IN  /\ \A i, j \in 1 .. Len(a) : i # j => a[i] \cap a[j] = {}
            /\ \A c \in ClaimOpen : Cardinality({i \in 1 .. Len(a) : c \in a[i]}) = 1
            /\ \A i \in 1 .. Len(a) : a[i] \cap lastClaim.boundary = {}
            /\ UNION {a[i] : i \in 1 .. Len(a)} \cup lastClaim.boundary = AllCells

\* a resolution pass that found more than one region
TwoRegionsFound ==
    /\ lastClaim.ran
    /\ Len(lastClaim.areas) >= 2

\* C7: at the end of every gameplay tick the trail is empty if the player's cell
\* is a border cell or in filledCells.
TrailEmptyOnClaimed ==
    lastTick.kind = "play" =>
        (CellAt(player) \in BorderCells \cup filledCells => trail = <<>>)

\* the player came back to claimed territory with a trail, which was cleared
TrailClearedOnReturn ==
    /\ lastTick.kind = "play"
    /\ lastClaim.ran
    /\ ~isLevelTransition
    /\ CellAt(player) \in filledCells
    /\ trail = <<>>

\* the tick ran updateTrail past its no-movement guard with the player in open territory
EnteredOpenCell ==
    /\ lastTick'.kind = "play"
    /\ lastPlayerPosition' # lastPlayerPosition
    /\ CellAt(player') \notin filledCells'

\* C8 (as the code has it): entering an open cell appends it to the trail unless
\* the cell is already anywhere in the trail.
TrailAppendsUnlessPresent ==
    [][EnteredOpenCell =>
          trail' = IF CellAt(player') \in TrailCells(trail) THEN trail
                   ELSE Append(trail, [x |-> CellAt(player')[1] * gridSize,
                                       y |-> CellAt(player')[2] * gridSize])]_vars

\* C8 (as stated): entering an open cell appends it unless it equals the last
\* entry of the trail, so a cell earlier in the trail is appended again.
TrailAppendsUnlessLast ==
    [][EnteredOpenCell =>
          trail' = IF trail # <<>> /\ CellAt(trail[Len(trail)]) = CellAt(player') THEN trail
                   ELSE Append(trail, [x |-> CellAt(player')[1] * gridSize,
                                       y |-> CellAt(player')[2] * gridSize])]_vars

\* the player stands again on a trail cell that is not the last entry
ReenteredEarlierTrailCell ==
    /\ lastTick.kind = "play"
    /\ Len(trail) >= 2
    /\ CellAt(player) \in TrailCells(trail)
    /\ CellAt(player) # CellAt(trail[Len(trail)])

\* the tick's movement left the player in the cell it had at the previous tick:
\* recorded by the tick when that cell is open; otherwise the player was neither
\* killed nor sent back by a level advance, and is where the movement put it
StayedInCell ==
    /\ lastTick'.kind = "play"
    /\ \/ lastTick'.stayedOpen
       \/ /\ ~lastTick'.killed
          /\ level' = level
          /\ CellAt(player') = CellAt(player)

ContactKillsOnlyOffClaimed ==
    lastTick.kind = "play" =>
        /\ lastTick.safe => ~lastTick.killed
        /\ (~lastTick.safe /\ lastTick.near) => lastTick.killed

\* an enemy reached the player in open territory and the check killed the player
KilledByContact ==
    /\ lastTick.kind = "play"
    /\ ~lastTick.safe
    /\ lastTick.near
    /\ lastTick.killed

\* an enemy touched the player on claimed territory and the player lived
SafeContact ==
    /\ lastTick.kind = "play"
    /\ lastTick.safe
    /\ lastTick.near
    /\ ~lastTick.killed

\* C11 (as the code has it): in a tick whose collision check finds the player off
\* claimed territory and an enemy within 0.7 cell of a trail entry, the player is
\* marked not alive, whether or not an enemy is near the player.
TrailHitKillsOffClaimed ==
    lastTick.kind = "play" =>
        ((lastTick.trailHit /\ ~lastTick.safe) => lastTick.killed)

\* C11 (as stated): in any tick in which an enemy is within 0.7 cell of a trail
\* entry, the player is marked not alive.
TrailHitAlwaysKills ==
    lastTick.kind = "play" => (lastTick.trailHit => lastTick.killed)

\* an enemy hit the trail, away from the player, and the player was killed
KilledByTrailHit ==
    /\ lastTick.kind = "play"
    /\ lastTick.trailHit
    /\ ~lastTick.near
    /\ ~lastTick.safe
    /\ lastTick.killed

\* C12: after a tick whose collision check detected a death, if the lives at the
\* check were above 1 then lives is one less, isAlive is true, the player is at
\* pixel (0,0) with zero velocity and the trail is empty; otherwise lives is 0
\* and isAlive is false.
DeathTakesOneLife ==
    (lastTick.kind = "play" /\ lastTick.killed) =>
        IF lastTick.livesAtCheck > 1
        THEN /\ lives = lastTick.livesAtCheck - 1
             /\ isAlive
             /\ player = [x |-> 0, y |-> 0, vx |-> 0, vy |-> 0]
             /\ trail = <<>>
        ELSE /\ lives = 0
             /\ ~isAlive

\* the last life was lost: the death after a revival ended the game
LastLifeLost ==
    /\ lastTick.kind = "play"
    /\ lastTick.killed
    /\ lastTick.livesAtCheck = 1
    /\ lives = 0
    /\ ~isAlive

\* C13: at the end of every tick isAlive is false exactly when lives is 0; a death
\* detected with more than one life leaves the player alive at the end of the
\* tick; and the high-score query is made only in a tick that ends the game.
LivesDecideGameOver ==
    lastTick.kind \in {"play", "pause"} =>
        /\ ~isAlive <=> lives = 0
        /\ (lastTick.killed /\ lastTick.livesAtCheck > 1) => isAlive
        /\ lastTick.highScoreQuery <=> (lastTick.killed /\ lives = 0)

\* a death with a life to spare: the player was revived and no query was made
RevivedWithoutQuery ==
    /\ lastTick.kind = "play"
    /\ lastTick.killed
    /\ lastTick.livesAtCheck = 2
    /\ isAlive
    /\ lives = 1
    /\ ~lastTick.highScoreQuery

\* C14: at every extra-life check made with lives below maxLives, lives grows by
\* the number of multiples of 150000 the score has passed since the previous
\* check (as far as maxLives allows): once per multiple, none without one.
ExtraLifePerMultiple ==
    (lastTick.kind = "lives" /\ lastTick.room) =>
        lastTick.awarded = Min(lastTick.crossed, maxLives - (lastTick.livesAtCheck - lastTick.awarded))

\* the score passed two multiples in one tick and the next check gave one life
TwoMultiplesOneLife ==
    /\ lastTick.kind = "lives"
    /\ lastTick.room
    /\ lastTick.crossed = 2
    /\ lastTick.awarded = 1

\* C15: an extra life is given only at a check that finds the score past a
\* multiple of 150000 it was not past at the previous check, with lives below
\* maxLives.
ExtraLifeOnlyOnCrossing ==
    (lastTick.kind = "lives" /\ lastTick.awarded > 0) =>
        (lastTick.crossed > 0 /\ lastTick.room)

\* a life was given at a check at which the score had passed no new multiple
LateExtraLife ==
    /\ lastTick.kind = "lives"
    /\ lastTick.awarded > 0
    /\ lastTick.crossed = 0

\* C16: a gameplay tick raises the level, by exactly 1, exactly when its trail
\* update ends with areaFilled at or above 80 percent; that tick adds 1000 times
\* the old level to the score, and 500 more if areaFilled was above 85 percent,
\* sets enemyCount to the new level and sets isLevelTransition.  No other tick
\* changes the level.
LevelAdvanceRule ==
    [][/\ lastTick'.kind = "play" =>
            IF lastTick'.areaAtCheck >= LEVEL_UP_THRESHOLD * TotalCells
            THEN /\ level' = level + 1
                 /\ score' = lastTick'.scoreAtCheck + level * 1000
                                + (IF lastTick'.areaAtCheck > 85 * TotalCells THEN 500 ELSE 0)
                 /\ enemyCount' = level'
                 /\ isLevelTransition'
            ELSE /\ level' = level
                 /\ score' = lastTick'.scoreAtCheck
                 /\ isLevelTransition' = isLevelTransition
        /\ lastTick'.kind \in {"pause", "complete"} => level' = level]_vars

\* a level was completed with more than 85 percent claimed
LevelAdvancedWithBonus ==
    /\ lastTick.kind = "play"
    /\ lastTick.areaAtCheck > 85 * TotalCells
    /\ level = 2
    /\ enemyCount = 2
    /\ isLevelTransition
    /\ score = lastTick.scoreAtCheck + 1500

\* a level was completed with exactly 80 percent claimed
LevelAdvancedAtThreshold ==
    /\ lastTick.kind = "play"
    /\ lastTick.areaAtCheck = LEVEL_UP_THRESHOLD * TotalCells
    /\ level = 2
    /\ isLevelTransition
    /\ score = lastTick.scoreAtCheck + 1000

\* the board as advanceLevel leaves it for the level now current
BoardReset ==
    /\ filledCells = BorderCells
    /\ trail = <<>>
    /\ player = [x |-> 0, y |-> 0, vx |-> 0, vy |-> 0]
    /\ enemies = CreateEnemiesForLevel(GS).enemies
    /\ Len(enemies) = level

\* C17: throughout a level transition and in the state that completes it the
\* claimed set is the border ring, the trail is empty, the player is stopped at
\* the origin and the enemies are those generated for the new level, and no
\* step of the transition changes score, level or lives.
TransitionEndsOnResetBoard ==
    /\ [](isLevelTransition => BoardReset)
    /\ [][isLevelTransition =>
            /\ score' = score /\ level' = level /\ lives' = lives
            /\ ~isLevelTransition' => BoardReset']_vars

\* the 90th tick of a pause completed the transition to level 2
TransitionCompleted ==
    /\ lastTick.kind = "pause"
    /\ ~isLevelTransition
    /\ level = 2
    /\ BoardReset

\* C18: an updateGame call made during the transition pause leaves player,
\* enemies, trail, claimed set, score, lives and level as they were, and every
\* surprise with its state and timer; the call that ends the pause may only add
\* the new level's surprises behind them.
PauseSuspendsGameplay ==
    [][lastTick'.kind = "pause" =>
          /\ player' = player /\ enemies' = enemies /\ trail' = trail
          /\ filledCells' = filledCells /\ score' = score
          /\ lives' = lives /\ level' = level
          /\ IF isLevelTransition' THEN surprises' = surprises
             ELSE /\ Len(surprises') >= Len(surprises)
                  /\ SubSeq(surprises', 1, Len(surprises)) = surprises]_vars

\* a pause tick ran with a collected surprise on the board
PausedWithLiveSurprise ==
    /\ lastTick.kind = "pause"
    /\ transitionFrameCounter > 1
    /\ \E i \in 1 .. Len(surprises) : surprises[i].state \in {"activated", "magnetic"}

\* the lifecycle steps a surprise may take while it stays in the list
LifecycleSteps ==
    {<<st, st>> : st \in {"inactive", "activated", "magnetic"}}
        \cup {<<"inactive", "activated">>, <<"activated", "magnetic">>}

\* C19: no step moves a surprise backwards or over a state: while it is in the
\* list it goes inactive -> activated -> magnetic one step at a time, it leaves
\* the list (exploded) only from magnetic, a surprise new in the list is
\* inactive, and the list never holds an exploded surprise.  (A game over and
\* the restart after it empty the list.)
LifecycleInOrder ==
    /\ [](\A i \in 1 .. Len(surprises) : surprises[i].state # "exploded")
    /\ [][(isAlive' /\ lastTick'.kind # "restart") =>
            /\ \A i \in 1 .. Len(surprises) :
                  IF \E j \in 1 .. Len(surprises') : surprises'[j].id = surprises[i].id
                  THEN \A j \in 1 .. Len(surprises') :
                          surprises'[j].id = surprises[i].id =>
                              <<surprises[i].state, surprises'[j].state>> \in LifecycleSteps
                  ELSE surprises[i].state = "magnetic"
            /\ \A j \in 1 .. Len(surprises') :
                  (\A i \in 1 .. Len(surprises) : surprises[i].id # surprises'[j].id)
                      => surprises'[j].state = "inactive"]_vars

\* a magnetic bomb reached its maximum, exploded and left the list
MagneticBombExpired ==
    /\ lastTick.kind = "pickup"
    /\ lastTick.exploded # {}
    /\ isAlive

\* C20: a surprise goes from activated to magnetic only in an updateGame tick
\* of gameplay, never between two ticks and never during a transition pause.
MagneticOnlyInTick ==
    [][(\E i \in 1 .. Len(surprises), j \in 1 .. Len(surprises') :
            /\ surprises'[j].id = surprises[i].id
            /\ surprises[i].state = "activated"
            /\ surprises'[j].state = "magnetic")
          => (lastTick'.kind = "pickup" /\ ~isLevelTransition)]_vars

\* the callback made a surprise magnetic during a transition pause
MagneticDuringPause ==
    /\ lastTick.kind = "timeout"
    /\ isLevelTransition
    /\ \E i \in 1 .. Len(surprises) : surprises[i].state = "magnetic"

\* C21: an enemy with a stuck record keeps its position from one tick to the
\* next for as long as the record is there.
StuckEnemyHeld ==
    [][\A i \in 1 .. Len(stuckEnemies), j \in 1 .. Len(stuckEnemies') :
          (/\ stuckEnemies'[j].enemyIndex = stuckEnemies[i].enemyIndex
           /\ stuckEnemies'[j].bombId = stuckEnemies[i].bombId
           /\ stuckEnemies'[j].stuckTime = stuckEnemies[i].stuckTime + 1)
              => enemies'[stuckEnemies[i].enemyIndex] = enemies[stuckEnemies[i].enemyIndex]]_vars

\* an enemy with a stuck record is out of the sticking radius of its bomb
StuckEnemyWandered ==
    \E i \in 1 .. Len(stuckEnemies), b \in 1 .. Len(surprises) :
        /\ surprises[b].id = stuckEnemies[i].bombId
        /\ stuckEnemies[i].stuckTime < TimerWindow \div 2
        /\ LET e == enemies[stuckEnemies[i].enemyIndex]
           IN  100 * ((e.x - surprises[b].x) * (e.x - surprises[b].x)
                        + (e.y - surprises[b].y) * (e.y - surprises[b].y))
                 >= 64 * gridSize * gridSize

\* C22: every stuck-enemy record names a surprise that is in the list, and a
\* surprise whose timer reached maxTimer in a tick is not in the list after it.
StuckRecordsNameLiveBombs ==
    /\ \A i \in 1 .. Len(stuckEnemies) :
          \E b \in 1 .. Len(surprises) : surprises[b].id = stuckEnemies[i].bombId
    /\ lastTick.kind = "play" =>
          \A b \in 1 .. Len(surprises) : surprises[b].id \notin lastTick.expired

\* a bomb reached maxTimer with an enemy stuck to it: both are gone
ExpiredWithStuckEnemy ==
    /\ lastTick.kind = "play"
    /\ lastTick.expired # {}
    /\ lastTick.freed # {}
    /\ surprises = <<>>
    /\ stuckEnemies = <<>>

\* C23: the points a tick adds for collecting are more than the sticking
\* bonus for each surprise collected, and more on level 2 and up than the
\* level-1 amount; the points it adds for sticking are the sticking bonus for
\* each enemy stuck in the tick.
CollectionBonusLargerAndScaled ==
    lastTick.kind = "pickup" =>
        /\ lastTick.collected # {} =>
              /\ lastTick.collectGain > StickBonus * Cardinality(lastTick.collected)
              /\ lastTick.collectLevel > 1 =>
                    lastTick.collectGain > CollectBonus * Cardinality(lastTick.collected)
        /\ lastTick.collected = {} => lastTick.collectGain = 0
        /\ lastTick.stickGain = StickBonus * lastTick.sticks

\* a surprise was collected on level 2 for the level-1 amount
CollectedOnLevelTwo ==
    /\ lastTick.kind = "pickup"
    /\ lastTick.collected # {}
    /\ lastTick.collectLevel = 2
    /\ lastTick.collectGain = CollectBonus

\* the surprise at position k of the list lies at least d cells from position a
\* on one axis
Apart(k, a, d) ==
    \/ Abs(surprises[k].x - a.x) >= d * gridSize
    \/ Abs(surprises[k].y - a.y) >= d * gridSize

\* C24: every surprise a spawnLevelSurprises call has pushed lies on a cell
\* three or more cells from each edge of the grid, unclaimed, 2 cells from every
\* trail cell, 3 from the player and from every enemy and 4 from every
\* surprise that was in the list before it; the call makes at most attempts
\* draws for a bomb, pushes at most min(1 + floor(level / 3), 3) bombs, and
\* returns.
SpawnedOnSafeCells ==
    /\ [](\A k \in spawn.old + 1 .. Len(surprises) :
            /\ surprises[k].x % gridSize = 0 /\ surprises[k].y % gridSize = 0
            /\ CellOf(surprises[k].x) >= 3 /\ CellOf(surprises[k].x) <= SpawnW - 4
            /\ CellOf(surprises[k].y) >= 3 /\ CellOf(surprises[k].y) <= SpawnH - 4
            /\ CellAt(surprises[k]) \notin filledCells
            /\ \A t \in 1 .. Len(trail) : Apart(k, trail[t], 2)
            /\ Apart(k, player, 3)
            /\ \A e \in 1 .. Len(enemies) : Apart(k, enemies[e], 3)
            /\ \A j \in 1 .. k - 1 : Apart(k, surprises[j], 4))
    /\ [](spawn.attempt < attempts)
    /\ [](Len(surprises) - spawn.old <= Min(1 + (level \div 3), 3))
    /\ (spawn.pc = "loop") ~> (spawn.pc = "done")

\* a call on level 3 pushed one bomb, found no cell for the other and returned
SpawnedOneSkippedOne ==
    /\ spawn.pc = "done"
    /\ level = 3
    /\ Len(surprises) - spawn.old = 1

ScoreNeverDecreases ==
    /\ [](score \in Nat)
    /\ [][lastTick'.kind # "restart" => score' >= score]_vars

\* a tick took a life from a player that had points
LifeLostWithPoints ==
    /\ lastTick.kind = "play"
    /\ lastTick.killed
    /\ isAlive
    /\ score > 0

\* the cells of the areas of the last resolution that hold no enemy
EnemyFreeCells ==
    UNION {lastClaim.areas[k] :
              k \in {j \in 1 .. Len(lastClaim.areas) :
                        lastClaim.areas[j] \cap lastClaim.enemyCells = {}}}

\* C27: a resolution that newly fills n > 0 cells, all its areas together,
\* adds 10 n + floor(5 n^1.5) + (20 n if n >= 50) to the score, where
\* floor(5 n^1.5) is the r with r^2 <= 25 n^3 < (r + 1)^2; one that fills no
\* cell adds nothing.
ClaimScoredOnTotal ==
    lastClaim.ran =>
        LET n == Cardinality(EnemyFreeCells \ lastClaim.boundary)
        IN  /\ lastClaim.newly = n
            /\ score = lastClaim.gained
            /\ IF n = 0 THEN lastClaim.gained = 0
               ELSE \E r \in 0 .. 5 * n * n :
                       /\ r * r <= 25 * n * n * n
                       /\ (r + 1) * (r + 1) > 25 * n * n * n
                       /\ lastClaim.gained
                            = 10 * n + r + (IF n >= 50 THEN 20 * n ELSE 0)

\* two areas were filled in one resolution, 50 cells or more in all
FilledTwoAreasOverFifty ==
    /\ lastClaim.ran
    /\ Len(lastClaim.areas) = 2
    /\ lastClaim.areas[2] \cap lastClaim.enemyCells = {}
    /\ lastClaim.newly >= 50

\* the last resolution found open areas, and each of them holds an enemy
OnlyEnemyAreas(claim) ==
    /\ claim.ran
    /\ Len(claim.areas) > 0
    /\ \A k \in 1 .. Len(claim.areas) : claim.areas[k] \cap claim.enemyCells # {}

\* C28: when a play tick closes a trail, every open area holds an enemy and
\* the level is not completed by it, the areas stay out of filledCells, every
\* trail cell and the player's cell are in filledCells afterwards, and the
\* resolution awards the score of the number of trail cells it converted.
EnemyAreaClaimScoresTrail ==
    [][(lastTick'.kind = "play" /\ OnlyEnemyAreas(lastClaim')
                                  /\ ~isLevelTransition') =>
          /\ \A k \in 1 .. Len(lastClaim'.areas) :
                lastClaim'.areas[k] \cap filledCells' = {}
          /\ TrailCells(trail) \cup {CellAt(player')} \subseteq filledCells'
          /\ lastClaim'.gained
               = AreaScore(Cardinality(TrailCells(trail) \ filledCells))]_vars

\* a trail was closed around the enemy's area, its cells are claimed and the
\* resolution awarded nothing
EnemyAreaClaimedForNothing ==
    /\ lastTick.kind = "play"
    /\ OnlyEnemyAreas(lastClaim)
    /\ ~isLevelTransition
    /\ lastClaim.boundary = filledCells
    /\ Cardinality(filledCells) > 2 * (gridWidth + gridHeight) - 4
    /\ lastClaim.gained = 0

\* C29: at the end of every tick areaFilled is the derived percentage,
\* 100 x (number of cells in filledCells) / (gridWidth x gridHeight), kept
\* here multiplied by the number of cells.
AreaFilledDerived ==
    lastTick.kind = "play" => areaFilled = AreaPercent(filledCells)

\* after a tick the border is in filledCells and areaFilled is still 0
BorderFilledAreaZero ==
    /\ lastTick.kind = "play"
    /\ filledCells = BorderCells
    /\ areaFilled = 0

\* a pixel position at which a cell-sized sprite lies on the canvas
OnCanvas(p) ==
    /\ 0 <= p.x /\ p.x <= canvasWidth - gridSize
    /\ 0 <= p.y /\ p.y <= canvasHeight - gridSize

\* C30: at the end of every tick the player and every enemy are at a position
\* in [0, canvasWidth - gridSize] x [0, canvasHeight - gridSize].
EntitiesOnCanvas ==
    /\ OnCanvas(player)
    /\ \A i \in 1 .. Len(enemies) : OnCanvas(enemies[i])

\* the player ended a tick at the right or the bottom edge of the canvas with
\* its velocity towards the edge
PlayerPressedToFarEdge ==
    /\ lastTick.kind = "play"
    /\ \/ player.x = canvasWidth - gridSize /\ player.vx > 0
       \/ player.y = canvasHeight - gridSize /\ player.vy > 0

\* C31: after every updateEnemies call the speed of the enemy lies in
\* [MIN_SPEED, MAX_SPEED].
SpeedWithinLimits ==
    physics.after # <<>> =>
        /\ Speed2(physics.after) >= MIN_SPEED * MIN_SPEED
        /\ Speed2(physics.after) <= MAX_SPEED * MAX_SPEED

\* an updateEnemies call left a stuck enemy at rest
StuckEnemyLeftAtRest ==
    /\ physics.stuck
    /\ physics.after = ZeroV

\* an updateEnemies call left the enemy faster than MAX_SPEED
EnemyFasterThanMax ==
    /\ physics.after # <<>>
    /\ Speed2(physics.after) > MAX_SPEED * MAX_SPEED

\* C32: the flag isLevelTransition is cleared by the updateGame call that brings
\* transitionFrameCounter from 0 to TRANSITION_DURATION_FRAMES, which is the
\* call that spawns the surprises of the new level, and the counter is 0
\* whenever the flag is not set.
TransitionLastsAllFrames ==
    [][/\ ~isLevelTransition' => transitionFrameCounter' = 0
       /\ (isLevelTransition /\ ~isLevelTransition') =>
             /\ lastTick'.kind = "pause"
             /\ transitionFrameCounter + 1 = TRANSITION_DURATION_FRAMES
             /\ lastTick'.spawned = 1]_vars

\* the pause was ended before its last frame
TransitionCutShort ==
    /\ ~isLevelTransition
    /\ transitionFrameCounter > 0
    /\ transitionFrameCounter < TRANSITION_DURATION_FRAMES - 1

\* C39: every end of the pause after a level advance comes with one call of
\* spawnLevelSurprises, and between the advance and the first gameplay tick
\* there is no other: a step spawns after the first tick of a game exactly
\* when it clears isLevelTransition.
PauseEndsWithOneSpawn ==
    [][/\ (isLevelTransition /\ ~isLevelTransition') => lastTick'.spawned = 1
       /\ (lastTick'.spawned = 1 /\ filledCells # {}) =>
              (isLevelTransition /\ ~isLevelTransition')]_vars

\* onComplete ended the pause of a level advance: the next frame is a gameplay
\* tick of the new level, and spawnLevelSurprises has not been called
PauseEndedWithoutSpawn ==
    /\ lastTick.kind = "complete"
    /\ lastTick.spawned = 0
    /\ isAlive /\ ~isLevelTransition
    /\ level > 1

\* C33: when at the collision check of a tick the player's cell is not filled
\* and some enemy's position lies in a cell of the trail, the player is
\* marked not alive in that tick.
EnemyOnTrailKills ==
    (lastTick.kind = "play" /\ ~lastTick.safe /\ lastTick.onTrail) => lastTick.killed

\* an enemy stood in a trail cell at the collision check and the player was
\* not marked
EnemyOnTrailSpared ==
    /\ lastTick.kind = "play"
    /\ ~lastTick.safe
    /\ lastTick.onTrail
    /\ ~lastTick.killed

\* C34: a tick in which the collision check kills the player attributes no
\* territory: filledCells and areaFilled are what they were before the tick,
\* completeArea does not run (no claim score is awarded), and the level and
\* the transition flag stay as they were.
NoTerritoryOnDeath ==
    [][(lastTick'.kind = "play" /\ lastTick'.killed) =>
          /\ filledCells' = filledCells
          /\ areaFilled' = areaFilled
          /\ ~lastClaim'.ran
          /\ level' = level
          /\ ~isLevelTransition']_vars

\* an enemy reached the open trail and the player was killed and revived, on
\* a board where territory had already been claimed beyond the border
KilledWithOpenTrail ==
    /\ lastTick.kind = "play"
    /\ lastTick.killed
    /\ lastTick.trailHit
    /\ isAlive
    /\ filledCells # BorderCells

\* C35: a tick takes at most one life, however many enemies touch the player;
\* a player revived in the tick ends it stopped on the origin, a claimed cell;
\* and the tick after a revival kills only a player that has left the claimed
\* cells.
OneLifePerTick ==
    [][lastTick'.kind = "pickup" =>
          /\ lives' >= lives - 1
          /\ (lastTick'.killed /\ isAlive') =>
                /\ player' = [x |-> 0, y |-> 0, vx |-> 0, vy |-> 0]
                /\ CellAt(player') \in filledCells'
          /\ (lastTick.kind = "pickup" /\ lastTick.killed /\ lastTick'.killed) =>
                ~lastTick'.safe]_vars

\* on level 2 both enemies were on the player's open cell at the collision
\* check, and the player was revived with one life less
TwoEnemiesOneLife ==
    /\ lastTick.kind = "pickup"
    /\ lastTick.killed
    /\ isAlive
    /\ Len(enemies) = 2
    /\ \A i \in 1 .. Len(enemies) : enemies[i] = BombSpot
    /\ lives = STARTING_LIVES - 1

\* C36: after every step of a session the number of enemies is enemyCount and
\* is the level, and a step that stays on its level leaves the number of
\* enemies as it was.
EnemiesMatchLevel ==
    [][/\ Len(enemies') = enemyCount'
       /\ enemyCount' = level'
       /\ level' = level => Len(enemies') = Len(enemies)]_vars

\* a tick of gameplay on level 2, with both enemies on the board
PlayedLevelTwo ==
    /\ lastTick.kind = "pickup"
    /\ ~isLevelTransition
    /\ level = 2
    /\ Len(enemies) = 2

\* C37: no trail cell is in filledCells and no trail cell is a border cell;
\* a step that grows filledCells leaves the trail empty.
TrailOnOpenCells ==
    [][/\ TrailCells(trail') \cap (filledCells' \cup BorderCells) = {}
       /\ ~(filledCells' \subseteq filledCells) => trail' = <<>>]_vars

\* a claim resolution has grown filledCells beyond the border, and the player
\* is out again with a trail of two cells
TrailOpenedAfterClaim ==
    /\ lastTick.kind = "play"
    /\ Len(trail) >= 2
    /\ filledCells \ BorderCells # {}

\* C38: a step that regenerates the enemy list at a level advance leaves no
\* stuck-enemy record behind.
StuckRecordsEndWithLevel ==
    [][level' > level => stuckEnemies' = <<>>]_vars

\* in the pause after the advance to level 2, before any tick of that level,
\* a record names enemy index 1 of the new list
StaleStuckRecord ==
    /\ level = 2
    /\ isLevelTransition
    /\ \E s \in 1 .. Len(stuckEnemies) : stuckEnemies[s].enemyIndex = 1

\* the cells a flood fill may enter: in bounds, neither filled nor on the trail,
\* and not visited when the call started
FillOpen == FillCells \ (fill.filled \cup fill.trailSet \cup fill.visited0)

\* C5: a finished floodFill call has returned exactly the maximal region of its
\* seed (empty when the seed is out of bounds, on the boundary or visited), and
\* every started call finishes.
FloodFillReturnsRegion ==
    /\ [](fill.pc = "done" => fill.st.area = Region(fill.seed, FillOpen))
    /\ (fill.pc = "loop") ~> (fill.pc = "done")

\* a later call of a pass returned a region of several cells next to a boundary
FloodFillFoundRegion ==
    /\ fill.pc = "done"
    /\ Cardinality(fill.st.area) >= 2
    /\ fill.visited0 # {}
    /\ fill.filled \cup fill.trailSet # {}

====
